---- MODULE Spec2Model ----
(***************************************************************************)
(* Field-mapping registration passes (BitMart, Korbit, Zaif, REST demo)    *)
(* and the coverage statistics of update_status.py, over one SQLite store. *)
(*                                                                         *)
(* The store is the tables the scripts read and write: vendors,            *)
(* rest_endpoints, websocket_channels, canonical_fields, data_type_fields  *)
(* (for the 'ticker' data type) and field_mappings.  Surrogate keys are    *)
(* the 1-based positions in the catalogues below; 0 stands for SQL NULL /  *)
(* Python None.  mapping_id, the AUTOINCREMENT key of field_mappings, is   *)
(* kept as the creation rank among the rows of the same vendor: every      *)
(* query below compares the ids of one vendor's rows only.                 *)
(*                                                                         *)
(* dry_run_output is what the last dry run of a script displayed; workers  *)
(* are the script processes that run side by side on the store, each at    *)
(* its position in the loop of its pass.                                   *)
(***************************************************************************)
EXTENDS Integers, Sequences, FiniteSets, TLC

VARIABLES vendors, rest_endpoints, websocket_channels, canonical_fields,
          data_type_fields, field_mappings, dry_run_output, workers,
          files, automation, discovery

vars == <<vendors, rest_endpoints, websocket_channels, canonical_fields,
          data_type_fields, field_mappings, dry_run_output, workers,
          files, automation, discovery>>

NULL == 0

\* The variables outside the store: the project files add_exchange.py edits,
\* the add_exchange process, and the last product discovery of an adapter.
NoFiles ==
  [required |-> FALSE, adapter |-> "none", config |-> "none",
   spec_generator |-> "none", mapping_script |-> "none", todo |-> << >>]

Idle ==
  [status |-> "idle", dry_run |-> FALSE, force |-> FALSE, step |-> 0,
   completed |-> << >>, error |-> "none", runs |-> 0, calls |-> 0]

NoDiscovery ==
  [adapter |-> "none", error |-> "none",
   response |-> [envelope |-> "none", records |-> << >>], products |-> << >>]

(***************************************************************************)
(* Catalogues: the rows that discovery and seeding can put into the store. *)
(***************************************************************************)
VendorNames ==
  <<"bitmart", "korbit", "zaif", "coinbase", "binance", "kraken", "bitfinex">>

CanonicalFieldNames ==
  <<"symbol", "last_price", "bid_price", "ask_price", "best_bid_size",
    "best_ask_size", "high_24h", "low_24h", "open_24h", "volume_24h",
    "timestamp", "volume_30d">>

IndexOf(seq, x) == CHOOSE i \in 1..Len(seq) : seq[i] = x

VendorId(name) == IndexOf(VendorNames, name)

FieldId(name) == IndexOf(CanonicalFieldNames, name)

Range(seq) == {seq[i] : i \in 1..Len(seq)}

EndpointCatalog ==
  << [vendor |-> "zaif",     path |-> "/api/1/currency_pairs/all",        method |-> "GET"],
     [vendor |-> "zaif",     path |-> "/api/1/ticker/{currency_pair}",    method |-> "GET"],
     [vendor |-> "zaif",     path |-> "/api/1/last_price/{currency_pair}", method |-> "GET"],
     [vendor |-> "zaif",     path |-> "/api/1/trade",                     method |-> "POST"],
     [vendor |-> "coinbase", path |-> "/products/{product_id}/ticker",    method |-> "GET"],
     [vendor |-> "binance",  path |-> "/api/v3/ticker/24hr",              method |-> "GET"],
     [vendor |-> "kraken",   path |-> "/0/public/Ticker",                 method |-> "GET"],
     [vendor |-> "bitfinex", path |-> "/v2/ticker/{symbol}",              method |-> "GET"],
     [vendor |-> "bitmart",  path |-> "/spot/v1/ticker",                  method |-> "GET"] >>

ChannelCatalog ==
  << [vendor |-> "binance", channel_name |-> "ticker"],
     [vendor |-> "bitmart", channel_name |-> "spot/ticker"],
     [vendor |-> "bitmart", channel_name |-> "spot/depth"],
     [vendor |-> "korbit",  channel_name |-> "ticker"],
     [vendor |-> "korbit",  channel_name |-> "orderbook"] >>

EndpointRow(i) ==
  [endpoint_id |-> i, vendor_id |-> VendorId(EndpointCatalog[i].vendor),
   path |-> EndpointCatalog[i].path, method |-> EndpointCatalog[i].method]

ChannelRow(i) ==
  [channel_id |-> i, vendor_id |-> VendorId(ChannelCatalog[i].vendor),
   channel_name |-> ChannelCatalog[i].channel_name]

\* SQL  LIKE '%ticker%'  over the names of the catalogues.
LikeTicker(s) ==
  s \in {"ticker", "spot/ticker", "/api/1/ticker/{currency_pair}",
         "/products/{product_id}/ticker", "/api/v3/ticker/24hr",
         "/v2/ticker/{symbol}", "/spot/v1/ticker"}

\* SQL  LIKE '%last_price%'.
LikeLastPrice(s) == s \in {"/api/1/last_price/{currency_pair}"}

\* Python  '/api/1/ticker/{currency_pair}' in path.
HasZaifTickerPath(s) == s \in {"/api/1/ticker/{currency_pair}"}

\* Python  '/api/1/last_price/{currency_pair}' in path.
HasZaifLastPricePath(s) == s \in {"/api/1/last_price/{currency_pair}"}

(***************************************************************************)
(* Rows of field_mappings.                                                 *)
(***************************************************************************)
DefaultPriority == 0

MaxOf(S) == CHOOSE x \in S : \A y \in S : y <= x

NextMappingId(fm, vendor_id) ==
  LET ids == {r.mapping_id : r \in {x \in fm : x.vendor_id = vendor_id}}
  IN IF ids = {} THEN 1 ELSE MaxOf(ids) + 1

\* The uniqueness key of a mapping (section 3 of the specification).
KeyOf(r) ==
  [vendor_id |-> r.vendor_id, canonical_field_id |-> r.canonical_field_id,
   source_type |-> r.source_type, vendor_field_path |-> r.vendor_field_path,
   endpoint_id |-> r.endpoint_id, channel_id |-> r.channel_id]

(***************************************************************************)
(* Lookups shared by the mapper classes.                                   *)
(***************************************************************************)
get_vendor_id(vendor_name) ==
  IF vendor_name \in vendors THEN VendorId(vendor_name) ELSE NULL

get_canonical_field_id(field_name) ==
  IF field_name \in canonical_fields THEN FieldId(field_name) ELSE NULL

\* BitmartTickerMapper.get_websocket_channel_id: the ids of the matching rows.
get_websocket_channel_id(vendor_id, channel_name) ==
  {c.channel_id : c \in {x \in websocket_channels :
                            x.vendor_id = vendor_id /\ x.channel_name = channel_name}}

\* RestTickerMapper.get_endpoint_id: the ids of the matching rows.
get_endpoint_id(vendor_id, path, method) ==
  {e.endpoint_id : e \in {x \in rest_endpoints :
                            x.vendor_id = vendor_id /\ x.path = path /\ x.method = method}}

\* get_websocket_channels without the vendor filter.
get_websocket_channels_AnyVendor(vendor_id) ==
  {c \in websocket_channels : LikeTicker(c.channel_name)}

\* KorbitTickerMapper.get_websocket_channels.
get_websocket_channels(vendor_id) ==
  {c \in websocket_channels : c.vendor_id = vendor_id /\ LikeTicker(c.channel_name)}

\* ZaifTickerMapper.get_rest_endpoints.
get_rest_endpoints(vendor_id) ==
  {e \in rest_endpoints : /\ e.vendor_id = vendor_id
                          /\ e.method = "GET"
                          /\ (LikeTicker(e.path) \/ LikeLastPrice(e.path))}

\* cursor.fetchone() on a lookup by a natural key: None when no row matches,
\* else the first row (rowid order).
FetchOne(ids) ==
  IF ids = {} THEN NULL ELSE CHOOSE x \in ids : \A y \in ids : x <= y

EmptyAcc(fm) == [fm |-> fm, created |-> 0, failed |-> 0, skipped |-> {}]

(***************************************************************************)
(* The registration loop the four scripts share:                           *)
(*     for vendor_path, canonical_name, rule in mappings:                  *)
(*         look the canonical field up, skip the entry when it is missing; *)
(*         SELECT an existing mapping, skip the entry when there is one;   *)
(*         INSERT the row.                                                 *)
(* select names the script's SELECT, source_of maps the vendor path of an  *)
(* entry to its endpoint or channel.  Entry i of the loop sees the         *)
(* stored rows and the rows of the entries before it; a new row gets the   *)
(* next id after the rows inserted before it.                              *)
(***************************************************************************)
Found(mappings, i) == get_canonical_field_id(mappings[i].field) # NULL

ProposedRow(mappings, i, id, vendor_id, source_type, source_id, priority) ==
  [mapping_id |-> id, vendor_id |-> vendor_id,
   canonical_field_id |-> get_canonical_field_id(mappings[i].field),
   source_type |-> source_type, entity_type |-> "ticker",
   vendor_field_path |-> mappings[i].path,
   endpoint_id |-> IF source_type = "rest" THEN source_id ELSE NULL,
   channel_id |-> IF source_type = "websocket" THEN source_id ELSE NULL,
   transformation_rule |-> mappings[i].rule, priority |-> priority,
   is_active |-> TRUE]

\* BitmartMappingExists with the channel compared against the wrong column.
BitmartMappingExists_WrongColumn(fm, vendor_id, canonical_field_id, vendor_field_path, channel_id) ==
  \E r \in fm : /\ r.vendor_id = vendor_id
                /\ r.canonical_field_id = canonical_field_id
                /\ r.vendor_field_path = vendor_field_path
                /\ r.endpoint_id = channel_id

\* The SELECT of BitmartTickerMapper.create_field_mapping.
BitmartMappingExists(fm, vendor_id, canonical_field_id, vendor_field_path, channel_id) ==
  \E r \in fm : /\ r.vendor_id = vendor_id
                /\ r.canonical_field_id = canonical_field_id
                /\ r.vendor_field_path = vendor_field_path
                /\ r.channel_id = channel_id

\* The SELECT of KorbitTickerMapper.create_mappings and of
\* ZaifTickerMapper.create_mappings: vendor, path and canonical field only.
PathMappingExists(fm, vendor_id, canonical_field_id, vendor_field_path, source_id) ==
  \E r \in fm : /\ r.vendor_id = vendor_id
                /\ r.vendor_field_path = vendor_field_path
                /\ r.canonical_field_id = canonical_field_id

\* The SELECT of RestTickerMapper.create_field_mapping.
RestMappingExists(fm, vendor_id, canonical_field_id, vendor_field_path, endpoint_id) ==
  \E r \in fm : /\ r.vendor_id = vendor_id
                /\ r.canonical_field_id = canonical_field_id
                /\ r.vendor_field_path = vendor_field_path
                /\ r.endpoint_id = endpoint_id
                /\ r.source_type = "rest"

\* The SELECT each script runs before its INSERT.
MappingExists(select, fm, vendor_id, canonical_field_id, vendor_field_path, source_id) ==
  CASE select = "bitmart" ->
         BitmartMappingExists(fm, vendor_id, canonical_field_id, vendor_field_path, source_id)
    [] select = "rest" ->
         RestMappingExists(fm, vendor_id, canonical_field_id, vendor_field_path, source_id)
    [] OTHER ->
         PathMappingExists(fm, vendor_id, canonical_field_id, vendor_field_path, source_id)

\* Every entry of the list on the same endpoint or channel.
SameSource(mappings, source_id) ==
  [p \in {mappings[i].path : i \in 1..Len(mappings)} |-> source_id]

\* The rows in the table when entry i runs its SELECT (ids left aside).
SeenBy(mappings, i, fm, vendor_id, source_type, source_of, priority) ==
  fm \cup {ProposedRow(mappings, j, NULL, vendor_id, source_type,
                       source_of[mappings[j].path], priority) :
             j \in {k \in 1..(i - 1) : Found(mappings, k)}}

\* Inserts with the loop left (break) at the first missing canonical field.
Inserts_StopAtMissing(mappings, i, fm, vendor_id, source_type, source_of, priority, select) ==
  /\ \A k \in 1..i : Found(mappings, k)
  /\ ~MappingExists(select,
                    SeenBy(mappings, i, fm, vendor_id, source_type, source_of, priority),
                    vendor_id, get_canonical_field_id(mappings[i].field),
                    mappings[i].path, source_of[mappings[i].path])

Inserts(mappings, i, fm, vendor_id, source_type, source_of, priority, select) ==
  /\ Found(mappings, i)
  /\ ~MappingExists(select,
                    SeenBy(mappings, i, fm, vendor_id, source_type, source_of, priority),
                    vendor_id, get_canonical_field_id(mappings[i].field),
                    mappings[i].path, source_of[mappings[i].path])

RegistrationLoop_Replace(mappings, fm, vendor_id, source_type, source_of, priority, select) ==
  LET n       == Len(mappings)
      found   == {i \in 1..n : Found(mappings, i)}
      missing == {i \in 1..n : ~Found(mappings, i)}
      kept    == {r \in fm : r.vendor_id # vendor_id}
  IN [fm |-> kept \cup {ProposedRow(mappings, i,
                                    1 + Cardinality({j \in found : j < i}),
                                    vendor_id, source_type,
                                    source_of[mappings[i].path], priority) :
                          i \in found},
      inserted |-> Cardinality(found),
      existed  |-> 0,
      missing  |-> Cardinality(missing),
      skipped  |-> {}]

RegistrationLoop(mappings, fm, vendor_id, source_type, source_of, priority, select) ==
  LET n        == Len(mappings)
      inserted == {i \in 1..n : Inserts(mappings, i, fm, vendor_id, source_type,
                                        source_of, priority, select)}
      existing == {i \in 1..n : Found(mappings, i) /\ i \notin inserted}
      missing  == {i \in 1..n : ~Found(mappings, i)}
      base     == NextMappingId(fm, vendor_id)
  IN [fm |-> fm \cup {ProposedRow(mappings, i,
                                  base + Cardinality({j \in inserted : j < i}),
                                  vendor_id, source_type,
                                  source_of[mappings[i].path], priority) :
                        i \in inserted},
      inserted |-> Cardinality(inserted),
      existed  |-> Cardinality(existing),
      missing  |-> Cardinality(missing),
      skipped  |-> {KeyOf(ProposedRow(mappings, i, NULL, vendor_id, source_type,
                                      source_of[mappings[i].path], priority)) :
                      i \in existing}]

(***************************************************************************)
(* create_bitmart_mappings.py                                              *)
(***************************************************************************)
BitmartPriority == 10

BitmartMappings ==
  << [path |-> "data[].symbol",           field |-> "symbol",        rule |-> "identity"],
     [path |-> "data[].last_price",       field |-> "last_price",    rule |-> "string_to_numeric"],
     [path |-> "data[].best_bid",         field |-> "bid_price",     rule |-> "string_to_numeric"],
     [path |-> "data[].best_ask",         field |-> "ask_price",     rule |-> "string_to_numeric"],
     [path |-> "data[].best_bid_size",    field |-> "best_bid_size", rule |-> "string_to_numeric"],
     [path |-> "data[].best_ask_size",    field |-> "best_ask_size", rule |-> "string_to_numeric"],
     [path |-> "data[].high_24h",         field |-> "high_24h",      rule |-> "string_to_numeric"],
     [path |-> "data[].low_24h",          field |-> "low_24h",       rule |-> "string_to_numeric"],
     [path |-> "data[].open_24h",         field |-> "open_24h",      rule |-> "string_to_numeric"],
     [path |-> "data[].quote_volume_24h", field |-> "volume_24h",    rule |-> "string_to_numeric"],
     [path |-> "data[].base_volume_24h",  field |-> "volume_24h",    rule |-> "string_to_numeric"],
     [path |-> "data[].timestamp",        field |-> "timestamp",     rule |-> "integer_to_datetime"],
     [path |-> "data[].close_24h",        field |-> "last_price",    rule |-> "string_to_numeric"] >>

\* map_bitmart_ticker_fields: create_field_mapping returns True for a stored
\* and for a new mapping, so both count as created; a missing canonical field
\* counts as failed.
map_bitmart_ticker_fields(fm) ==
  LET vendor_id  == get_vendor_id("bitmart")
      channel_id == FetchOne(get_websocket_channel_id(vendor_id, "spot/ticker"))
      out == RegistrationLoop(BitmartMappings, fm, vendor_id, "websocket",
                              SameSource(BitmartMappings, channel_id),
                              BitmartPriority, "bitmart")
  IN IF vendor_id = NULL THEN EmptyAcc(fm)
     ELSE IF channel_id = NULL THEN EmptyAcc(fm)
     ELSE [fm |-> out.fm, created |-> out.inserted + out.existed,
           failed |-> out.missing, skipped |-> out.skipped]

\* main() of create_bitmart_mappings.py without --dry-run.
BitmartPass ==
  LET out == map_bitmart_ticker_fields(field_mappings)
  IN /\ field_mappings' = out.fm
     /\ UNCHANGED <<vendors, rest_endpoints, websocket_channels,
                    canonical_fields, data_type_fields, dry_run_output, workers,
                 files, automation, discovery>>

(***************************************************************************)
(* create_korbit_mappings.py                                               *)
(***************************************************************************)
KorbitMappings ==
  << [path |-> "last",          field |-> "last_price", rule |-> "string_to_numeric"],
     [path |-> "bid",           field |-> "bid_price",  rule |-> "string_to_numeric"],
     [path |-> "ask",           field |-> "ask_price",  rule |-> "string_to_numeric"],
     [path |-> "open",          field |-> "open_24h",   rule |-> "string_to_numeric"],
     [path |-> "high",          field |-> "high_24h",   rule |-> "string_to_numeric"],
     [path |-> "low",           field |-> "low_24h",    rule |-> "string_to_numeric"],
     [path |-> "volume",        field |-> "volume_24h", rule |-> "string_to_numeric"],
     [path |-> "timestamp",     field |-> "timestamp",  rule |-> "ms_to_datetime"],
     [path |-> "currency_pair", field |-> "symbol",     rule |-> "identity"] >>

\* What the scan of the channel list can leave in ticker_channel_id: None
\* when the vendor or its ticker channels are missing, else the first row of
\* the list (it has no ORDER BY, so any ticker channel of the vendor).
KorbitTickerChannel ==
  LET vendor_id == get_vendor_id("korbit")
      channels  == get_websocket_channels(vendor_id)
  IN IF vendor_id = NULL \/ channels = {} THEN {NULL}
     ELSE {c.channel_id : c \in channels}

\* KorbitTickerMapper.create_mappings(dry_run=False) once the channel is known:
\* created_count counts the inserted rows only.
korbit_create_mappings(fm, ticker_channel_id) ==
  LET out == RegistrationLoop(KorbitMappings, fm, get_vendor_id("korbit"),
                              "websocket",
                              SameSource(KorbitMappings, ticker_channel_id),
                              DefaultPriority, "korbit")
  IN IF ticker_channel_id = NULL THEN EmptyAcc(fm)
     ELSE [fm |-> out.fm, created |-> out.inserted, failed |-> out.missing,
           skipped |-> out.skipped]

KorbitPass ==
  /\ \E ch \in KorbitTickerChannel :
       field_mappings' = korbit_create_mappings(field_mappings, ch).fm
  /\ UNCHANGED <<vendors, rest_endpoints, websocket_channels,
                 canonical_fields, data_type_fields, dry_run_output, workers,
                 files, automation, discovery>>

(***************************************************************************)
(* create_zaif_mappings.py                                                 *)
(***************************************************************************)
ZaifMappings ==
  << [path |-> "last",       field |-> "last_price", rule |-> "identity"],
     [path |-> "high",       field |-> "high_24h",   rule |-> "identity"],
     [path |-> "low",        field |-> "low_24h",    rule |-> "identity"],
     [path |-> "volume",     field |-> "volume_24h", rule |-> "identity"],
     [path |-> "bid",        field |-> "bid_price",  rule |-> "identity"],
     [path |-> "ask",        field |-> "ask_price",  rule |-> "identity"],
     [path |-> "last_price", field |-> "last_price", rule |-> "identity"] >>

\* "Determine which endpoint this mapping belongs to".
ZaifEndpointFor(vendor_field, ticker_endpoint_id, last_price_endpoint_id) ==
  IF vendor_field = "last_price" THEN last_price_endpoint_id
                                 ELSE ticker_endpoint_id

\* What the scan of the endpoint list can leave in <<ticker_endpoint_id,
\* last_price_endpoint_id>>: the pass returns early (None, None) when the
\* vendor, its endpoints or the ticker endpoint are missing; otherwise each id
\* is a row whose path matches (the list has no ORDER BY; the last match of
\* the scan wins), the second one None when no path matches.
ZaifEndpoints ==
  LET vendor_id == get_vendor_id("zaif")
      endpoints == get_rest_endpoints(vendor_id)
      tickers   == {e.endpoint_id : e \in {x \in endpoints : HasZaifTickerPath(x.path)}}
      lasts     == {e.endpoint_id : e \in {x \in endpoints :
                        ~HasZaifTickerPath(x.path) /\ HasZaifLastPricePath(x.path)}}
  IN IF vendor_id = NULL \/ endpoints = {} \/ tickers = {}
     THEN {<<NULL, NULL>>}
     ELSE tickers \X (IF lasts = {} THEN {NULL} ELSE lasts)

\* ZaifTickerMapper.create_mappings(dry_run=False) once the endpoints are known.
zaif_create_mappings(fm, ticker_endpoint_id, last_price_endpoint_id) ==
  LET out == RegistrationLoop(ZaifMappings, fm, get_vendor_id("zaif"), "rest",
                              [p \in {ZaifMappings[i].path : i \in 1..Len(ZaifMappings)} |->
                                 ZaifEndpointFor(p, ticker_endpoint_id,
                                                 last_price_endpoint_id)],
                              DefaultPriority, "zaif")
  IN IF ticker_endpoint_id = NULL THEN EmptyAcc(fm)
     ELSE [fm |-> out.fm, created |-> out.inserted, failed |-> out.missing,
           skipped |-> out.skipped]

ZaifPass ==
  /\ \E ep \in ZaifEndpoints :
       field_mappings' = zaif_create_mappings(field_mappings, ep[1], ep[2]).fm
  /\ UNCHANGED <<vendors, rest_endpoints, websocket_channels,
                 canonical_fields, data_type_fields, dry_run_output, workers,
                 files, automation, discovery>>

(***************************************************************************)
(* create_rest_mappings_demo.py                                            *)
(***************************************************************************)
CoinbaseRestMappings ==
  << [path |-> "bid",    field |-> "bid_price",  rule |-> "string_to_numeric"],
     [path |-> "ask",    field |-> "ask_price",  rule |-> "string_to_numeric"],
     [path |-> "price",  field |-> "last_price", rule |-> "string_to_numeric"],
     [path |-> "volume", field |-> "volume_24h", rule |-> "string_to_numeric"],
     [path |-> "high",   field |-> "high_24h",   rule |-> "string_to_numeric"],
     [path |-> "low",    field |-> "low_24h",    rule |-> "string_to_numeric"],
     [path |-> "open",   field |-> "open_24h",   rule |-> "string_to_numeric"] >>

BinanceRestMappings ==
  << [path |-> "bidPrice",  field |-> "bid_price",     rule |-> "string_to_numeric"],
     [path |-> "bidQty",    field |-> "best_bid_size", rule |-> "string_to_numeric"],
     [path |-> "askPrice",  field |-> "ask_price",     rule |-> "string_to_numeric"],
     [path |-> "askQty",    field |-> "best_ask_size", rule |-> "string_to_numeric"],
     [path |-> "lastPrice", field |-> "last_price",    rule |-> "string_to_numeric"],
     [path |-> "highPrice", field |-> "high_24h",      rule |-> "string_to_numeric"],
     [path |-> "lowPrice",  field |-> "low_24h",       rule |-> "string_to_numeric"],
     [path |-> "openPrice", field |-> "open_24h",      rule |-> "string_to_numeric"],
     [path |-> "volume",    field |-> "volume_24h",    rule |-> "string_to_numeric"],
     [path |-> "symbol",    field |-> "symbol",        rule |-> "identity"],
     [path |-> "closeTime", field |-> "timestamp",     rule |-> "ms_to_datetime"] >>

KrakenRestMappings ==
  << [path |-> "result.{pair}.a[0]", field |-> "ask_price",  rule |-> "string_to_numeric"],
     [path |-> "result.{pair}.b[0]", field |-> "bid_price",  rule |-> "string_to_numeric"],
     [path |-> "result.{pair}.c[0]", field |-> "last_price", rule |-> "string_to_numeric"],
     [path |-> "result.{pair}.h[1]", field |-> "high_24h",   rule |-> "string_to_numeric"],
     [path |-> "result.{pair}.l[1]", field |-> "low_24h",    rule |-> "string_to_numeric"],
     [path |-> "result.{pair}.o",    field |-> "open_24h",   rule |-> "string_to_numeric"],
     [path |-> "result.{pair}.v[1]", field |-> "volume_24h", rule |-> "string_to_numeric"] >>

BitfinexRestMappings ==
  << [path |-> "[0]", field |-> "bid_price",     rule |-> "identity"],
     [path |-> "[1]", field |-> "best_bid_size", rule |-> "identity"],
     [path |-> "[2]", field |-> "ask_price",     rule |-> "identity"],
     [path |-> "[3]", field |-> "best_ask_size", rule |-> "identity"],
     [path |-> "[6]", field |-> "last_price",    rule |-> "identity"],
     [path |-> "[7]", field |-> "volume_24h",    rule |-> "identity"],
     [path |-> "[8]", field |-> "high_24h",      rule |-> "identity"],
     [path |-> "[9]", field |-> "low_24h",       rule |-> "identity"] >>

\* The body shared by map_coinbase_rest_ticker, map_binance_rest_ticker,
\* map_kraken_rest_ticker and map_bitfinex_rest_ticker; create_field_mapping
\* is called without a priority.
map_rest_ticker_NoEndpointGuard(fm, vendor_name, path, mappings) ==
  LET vendor_id   == get_vendor_id(vendor_name)
      endpoint_id == FetchOne(get_endpoint_id(vendor_id, path, "GET"))
      out == RegistrationLoop(mappings, fm, vendor_id, "rest",
                              SameSource(mappings, endpoint_id),
                              DefaultPriority, "rest")
  IN IF vendor_id = NULL THEN EmptyAcc(fm)
     ELSE [fm |-> out.fm, created |-> out.inserted + out.existed,
           failed |-> out.missing, skipped |-> out.skipped]

map_rest_ticker(fm, vendor_name, path, mappings) ==
  LET vendor_id   == get_vendor_id(vendor_name)
      endpoint_id == FetchOne(get_endpoint_id(vendor_id, path, "GET"))
      out == RegistrationLoop(mappings, fm, vendor_id, "rest",
                              SameSource(mappings, endpoint_id),
                              DefaultPriority, "rest")
  IN IF vendor_id = NULL THEN EmptyAcc(fm)
     ELSE IF endpoint_id = NULL THEN EmptyAcc(fm)
     ELSE [fm |-> out.fm, created |-> out.inserted + out.existed,
           failed |-> out.missing, skipped |-> out.skipped]

map_coinbase_rest_ticker(fm) ==
  map_rest_ticker(fm, "coinbase", "/products/{product_id}/ticker", CoinbaseRestMappings)

map_binance_rest_ticker(fm) ==
  map_rest_ticker(fm, "binance", "/api/v3/ticker/24hr", BinanceRestMappings)

map_kraken_rest_ticker(fm) ==
  map_rest_ticker(fm, "kraken", "/0/public/Ticker", KrakenRestMappings)

map_bitfinex_rest_ticker(fm) ==
  map_rest_ticker(fm, "bitfinex", "/v2/ticker/{symbol}", BitfinexRestMappings)

\* RestTickerMapper.map_all_rest_tickers: the store it leaves and the dict
\* of counts it returns.
map_all_rest_tickers_StopsAtMissing(fm) ==
  LET c == map_coinbase_rest_ticker(fm)
      b == IF c.created = 0 THEN EmptyAcc(c.fm) ELSE map_binance_rest_ticker(c.fm)
      k == IF b.created = 0 THEN EmptyAcc(b.fm) ELSE map_kraken_rest_ticker(b.fm)
      f == IF k.created = 0 THEN EmptyAcc(k.fm) ELSE map_bitfinex_rest_ticker(k.fm)
  IN [fm |-> f.fm,
      results |-> ("coinbase" :> c.created @@ "binance" :> b.created @@
                   "kraken" :> k.created @@ "bitfinex" :> f.created),
      failed  |-> c.failed + b.failed + k.failed + f.failed,
      skipped |-> c.skipped \cup b.skipped \cup k.skipped \cup f.skipped]

map_all_rest_tickers(fm) ==
  LET c == map_coinbase_rest_ticker(fm)
      b == map_binance_rest_ticker(c.fm)
      k == map_kraken_rest_ticker(b.fm)
      f == map_bitfinex_rest_ticker(k.fm)
  IN [fm |-> f.fm,
      results |-> ("coinbase" :> c.created @@ "binance" :> b.created @@
                   "kraken" :> k.created @@ "bitfinex" :> f.created),
      failed  |-> c.failed + b.failed + k.failed + f.failed,
      skipped |-> c.skipped \cup b.skipped \cup k.skipped \cup f.skipped]

\* main() of create_rest_mappings_demo.py with --create.
RestPass ==
  /\ field_mappings' = map_all_rest_tickers(field_mappings).fm
  /\ UNCHANGED <<vendors, rest_endpoints, websocket_channels,
                 canonical_fields, data_type_fields, dry_run_output, workers,
                 files, automation, discovery>>

(***************************************************************************)
(* Dry runs.  A dry run displays, for each proposed mapping, whether its   *)
(* canonical field was found; flagged holds the vendors whose vendor row   *)
(* or source the run reported as not found.                                *)
(***************************************************************************)
NoOutput == [script |-> "none", flagged |-> {}, lines |-> {}]

\* One displayed line per entry of the list.
DryRunLines(vendor_name, mappings) ==
  {[vendor |-> vendor_name, path |-> mappings[i].path, field |-> mappings[i].field,
    found |-> Found(mappings, i)] : i \in 1..Len(mappings)}

\* The list the --dry-run branch of main() of create_bitmart_mappings.py
\* displays.
BitmartDryRunMappings ==
  << [path |-> "data[].symbol",           field |-> "symbol"],
     [path |-> "data[].last_price",       field |-> "last_price"],
     [path |-> "data[].best_bid",         field |-> "bid_price"],
     [path |-> "data[].best_ask",         field |-> "ask_price"],
     [path |-> "data[].best_bid_size",    field |-> "best_bid_size"],
     [path |-> "data[].best_ask_size",    field |-> "best_ask_size"],
     [path |-> "data[].high_24h",         field |-> "high_24h"],
     [path |-> "data[].low_24h",          field |-> "low_24h"],
     [path |-> "data[].open_24h",         field |-> "open_24h"],
     [path |-> "data[].quote_volume_24h", field |-> "volume_24h"],
     [path |-> "data[].base_volume_24h",  field |-> "volume_24h"],
     [path |-> "data[].close_24h",        field |-> "last_price"],
     [path |-> "data[].timestamp",        field |-> "timestamp"] >>

\* main() of create_bitmart_mappings.py with --dry-run: the vendor and the
\* channel ids are displayed as they are, None included, and every entry of
\* the list is displayed with the status of its canonical field.
bitmart_dry_run(fm) ==
  [fm |-> fm,
   output |-> [script |-> "bitmart", flagged |-> {},
               lines |-> DryRunLines("bitmart", BitmartDryRunMappings)]]

\* korbit_dry_run with the return after the listing left out: the run goes
\* on into the loop that creates the mappings.
korbit_dry_run_FallsThrough(fm, ticker_channel_id) ==
  [fm |-> korbit_create_mappings(fm, ticker_channel_id).fm,
   output |-> IF ticker_channel_id = NULL
              THEN [script |-> "korbit", flagged |-> {"korbit"}, lines |-> {}]
              ELSE [script |-> "korbit", flagged |-> {},
                    lines |-> DryRunLines("korbit", KorbitMappings)]]

\* KorbitTickerMapper.create_mappings(dry_run=True) once the channel is
\* known: nothing is listed when the vendor or its ticker channel is missing.
korbit_dry_run(fm, ticker_channel_id) ==
  [fm |-> fm,
   output |-> IF ticker_channel_id = NULL
              THEN [script |-> "korbit", flagged |-> {"korbit"}, lines |-> {}]
              ELSE [script |-> "korbit", flagged |-> {},
                    lines |-> DryRunLines("korbit", KorbitMappings)]]

\* ZaifTickerMapper.create_mappings(dry_run=True) once the endpoints are known.
zaif_dry_run(fm, ticker_endpoint_id, last_price_endpoint_id) ==
  [fm |-> fm,
   output |-> IF ticker_endpoint_id = NULL
              THEN [script |-> "zaif", flagged |-> {"zaif"}, lines |-> {}]
              ELSE [script |-> "zaif", flagged |-> {},
                    lines |-> DryRunLines("zaif", ZaifMappings)]]

\* The exchanges list of dry_run_display: vendor, endpoint path, mappings.
DryRunExchanges ==
  << [vendor |-> "coinbase", path |-> "/products/{product_id}/ticker",
      mappings |-> CoinbaseRestMappings],
     [vendor |-> "binance",  path |-> "/api/v3/ticker/24hr",
      mappings |-> BinanceRestMappings],
     [vendor |-> "kraken",   path |-> "/0/public/Ticker",
      mappings |-> KrakenRestMappings],
     [vendor |-> "bitfinex", path |-> "/v2/ticker/{symbol}",
      mappings |-> BitfinexRestMappings] >>

\* RestTickerMapper.dry_run_display: "Endpoint not found" for a vendor
\* without vendor row or endpoint, then every entry with its field status.
dry_run_display(fm) ==
  [fm |-> fm,
   output |->
     [script |-> "rest",
      flagged |-> {DryRunExchanges[i].vendor : i \in {j \in 1..Len(DryRunExchanges) :
                     LET vendor_id == get_vendor_id(DryRunExchanges[j].vendor)
                     IN \/ vendor_id = NULL
                        \/ FetchOne(get_endpoint_id(vendor_id, DryRunExchanges[j].path,
                                                    "GET")) = NULL}},
      lines |-> UNION {DryRunLines(DryRunExchanges[i].vendor, DryRunExchanges[i].mappings) :
                         i \in 1..Len(DryRunExchanges)}]]

BitmartDryRun ==
  LET out == bitmart_dry_run(field_mappings)
  IN /\ field_mappings' = out.fm
     /\ dry_run_output' = out.output
     /\ UNCHANGED <<vendors, rest_endpoints, websocket_channels,
                    canonical_fields, data_type_fields, workers,
                 files, automation, discovery>>

KorbitDryRun ==
  /\ \E ch \in KorbitTickerChannel :
       LET out == korbit_dry_run(field_mappings, ch)
       IN /\ field_mappings' = out.fm
          /\ dry_run_output' = out.output
  /\ UNCHANGED <<vendors, rest_endpoints, websocket_channels,
                 canonical_fields, data_type_fields, workers,
                 files, automation, discovery>>

ZaifDryRun ==
  /\ \E ep \in ZaifEndpoints :
       LET out == zaif_dry_run(field_mappings, ep[1], ep[2])
       IN /\ field_mappings' = out.fm
          /\ dry_run_output' = out.output
  /\ UNCHANGED <<vendors, rest_endpoints, websocket_channels,
                 canonical_fields, data_type_fields, workers,
                 files, automation, discovery>>

RestDryRun ==
  LET out == dry_run_display(field_mappings)
  IN /\ field_mappings' = out.fm
     /\ dry_run_output' = out.output
     /\ UNCHANGED <<vendors, rest_endpoints, websocket_channels,
                    canonical_fields, data_type_fields, workers,
                 files, automation, discovery>>

(***************************************************************************)
(* update_status.py: ExchangeStatsCollector.  Percentages are kept in      *)
(* tenths of a percent (round(x, 1) keeps one decimal).                    *)
(***************************************************************************)
\* a / b rounded to the nearest integer, halves to even; Python raises
\* ZeroDivisionError when b = 0.
PyDivRound(a, b) ==
  IF b = 0 THEN [raised |-> TRUE, value |-> 0]
  ELSE LET q == a \div b
           r == a % b
       IN [raised |-> FALSE,
           value  |-> IF 2 * r > b \/ (2 * r = b /\ q % 2 = 1) THEN q + 1 ELSE q]

get_total_canonical_ticker_fields(cfs, dtf) ==
  Cardinality({id \in dtf : \E n \in cfs : FieldId(n) = id})

\* ticker_mappings counting the websocket mappings only.
ticker_mappings_WebsocketOnly(fm, vendor_id) ==
  Cardinality({r \in fm : /\ r.vendor_id = vendor_id
                          /\ r.entity_type = "ticker"
                          /\ r.source_type = "websocket"})

\* COUNT(fm.mapping_id) of the LEFT JOIN for one vendor.
ticker_mappings(fm, vendor_id) ==
  Cardinality({r \in fm : r.vendor_id = vendor_id /\ r.entity_type = "ticker"})

coverage_percent(mappings, total_ticker_fields) ==
  IF total_ticker_fields > 0
  THEN PyDivRound(mappings * 1000, total_ticker_fields)
  ELSE [raised |-> FALSE, value |-> 0]

\* get_exchange_ticker_coverage with an inner JOIN: vendors without a ticker
\* mapping drop out of the result.
get_exchange_ticker_coverage_InnerJoin(vs, cfs, dtf, fm) ==
  LET total_ticker_fields == get_total_canonical_ticker_fields(cfs, dtf)
  IN IF total_ticker_fields = 0
     THEN [v \in {} |-> [mappings |-> 0, coverage_percent |-> 0, raised |-> FALSE]]
     ELSE [v \in {x \in vs : ticker_mappings(fm, VendorId(x)) > 0} |->
             LET n == ticker_mappings(fm, VendorId(v))
                 p == coverage_percent(n, total_ticker_fields)
             IN [mappings |-> n, coverage_percent |-> p.value, raised |-> p.raised]]

\* The result as the dict get_database_stats builds from it:
\* vendor_name -> (mappings, coverage_percent).
get_exchange_ticker_coverage(vs, cfs, dtf, fm) ==
  LET total_ticker_fields == get_total_canonical_ticker_fields(cfs, dtf)
  IN IF total_ticker_fields = 0
     THEN [v \in {} |-> [mappings |-> 0, coverage_percent |-> 0, raised |-> FALSE]]
     ELSE [v \in vs |->
             LET n == ticker_mappings(fm, VendorId(v))
                 p == coverage_percent(n, total_ticker_fields)
             IN [mappings |-> n, coverage_percent |-> p.value, raised |-> p.raised]]

RECURSIVE SumCoverage(_, _)
SumCoverage(cov, S) ==
  IF S = {} THEN 0
  ELSE LET v == CHOOSE x \in S : TRUE
       IN cov[v].coverage_percent + SumCoverage(cov, S \ {v})

\* get_average_ticker_coverage without the guard on an empty result.
get_average_ticker_coverage_Unguarded(vs, cfs, dtf, fm) ==
  LET coverage_data == get_exchange_ticker_coverage(vs, cfs, dtf, fm)
  IN PyDivRound(SumCoverage(coverage_data, DOMAIN coverage_data),
                Cardinality(DOMAIN coverage_data))

get_average_ticker_coverage(vs, cfs, dtf, fm) ==
  LET coverage_data == get_exchange_ticker_coverage(vs, cfs, dtf, fm)
  IN IF DOMAIN coverage_data = {}
     THEN [raised |-> FALSE, value |-> 0]
     ELSE PyDivRound(SumCoverage(coverage_data, DOMAIN coverage_data),
                     Cardinality(DOMAIN coverage_data))

\* The rows update_implementation_status writes to the status table: the
\* vendors of the coverage result, then every other vendor with (0.0, 0).
coverage_items(vs, cfs, dtf, fm) ==
  LET exchange_ticker_coverage == get_exchange_ticker_coverage(vs, cfs, dtf, fm)
  IN [exchange \in vs |->
        IF exchange \in DOMAIN exchange_ticker_coverage
        THEN [coverage |-> exchange_ticker_coverage[exchange].coverage_percent,
              mappings |-> exchange_ticker_coverage[exchange].mappings]
        ELSE [coverage |-> 0, mappings |-> 0]]

\* The row orders the coverage query can return: ORDER BY ticker_mappings
\* DESC fixes the order of rows with different counts only; rows with equal
\* counts come in whatever order the query plan produces.
RECURSIVE QueryOrders(_, _)
QueryOrders(cov, S) ==
  IF S = {} THEN {<< >>}
  ELSE UNION {{<<v>> \o t : t \in QueryOrders(cov, S \ {v})} :
                v \in {x \in S : \A y \in S : cov[y].mappings <= cov[x].mappings}}

\* list.sort(key=lambda x: x[2], reverse=True): a stable sort, rows of equal
\* coverage keep their order.  Insert row x into the sorted list s behind
\* every row of at least its coverage.
RECURSIVE InsertByCoverage(_, _, _)
InsertByCoverage(cov, s, x) ==
  IF s = << >> THEN <<x>>
  ELSE IF cov[Head(s)].coverage_percent >= cov[x].coverage_percent
       THEN <<Head(s)>> \o InsertByCoverage(cov, Tail(s), x)
       ELSE <<x>> \o s

RECURSIVE SortByCoverage(_, _)
SortByCoverage(cov, s) ==
  IF s = << >> THEN << >>
  ELSE InsertByCoverage(cov, SortByCoverage(cov, SubSeq(s, 1, Len(s) - 1)), s[Len(s)])

LeadersLimit == 5

\* get_coverage_leaders(limit): the lists of (vendor, coverage) it can return.
get_coverage_leaders(limit, vs, cfs, dtf, fm) ==
  LET cov == get_exchange_ticker_coverage(vs, cfs, dtf, fm)
  IN {LET sorted == SortByCoverage(cov, coverage_data)
          n      == IF Len(sorted) < limit THEN Len(sorted) ELSE limit
      IN [i \in 1..n |-> [vendor   |-> sorted[i],
                          coverage |-> cov[sorted[i]].coverage_percent]] :
        coverage_data \in QueryOrders(cov, DOMAIN cov)}

(***************************************************************************)
(* create_rest_mappings_demo.py: the ticker coverage query of              *)
(* RestTickerMapper.verify_mappings, for one vendor.                       *)
(***************************************************************************)
rest_fields_defined(cfs, dtf) ==
  Cardinality({id \in dtf : \E n \in cfs : FieldId(n) = id})

rest_fields_mapped(cfs, dtf, fm, vendor_id) ==
  Cardinality({id \in {x \in dtf : \E n \in cfs : FieldId(n) = x} :
                 \E r \in fm : /\ r.vendor_id = vendor_id
                               /\ r.canonical_field_id = id
                               /\ r.is_active
                               /\ r.entity_type = "ticker"
                               /\ r.source_type = "rest"})

(***************************************************************************)
(* The resolution rule of the specification (section 4.2): the active      *)
(* mapping of highest priority, ties to the most recently created one.     *)
(***************************************************************************)
Candidates(fm, vendor_id, entity_type, source_type, canonical_field_id) ==
  {r \in fm : /\ r.is_active
              /\ r.vendor_id = vendor_id
              /\ r.entity_type = entity_type
              /\ r.source_type = source_type
              /\ r.canonical_field_id = canonical_field_id}

\* created[id] is the creation rank of the row with mapping_id id.
Best(cands, created) ==
  {r \in cands : \A o \in cands :
       \/ o.priority < r.priority
       \/ (o.priority = r.priority /\ created[o.mapping_id] <= created[r.mapping_id])}

CreatedAt(cands) == [id \in {r.mapping_id : r \in cands} |-> id]

resolve(fm, vendor_id, entity_type, source_type, canonical_field_id) ==
  LET cands == Candidates(fm, vendor_id, entity_type, source_type, canonical_field_id)
  IN Best(cands, CreatedAt(cands))

(***************************************************************************)
(* The store around the passes: catalogue rows arrive by discovery and     *)
(* seeding; a mapping can be switched off.                                 *)
(***************************************************************************)
LateVendors == {"kraken"}

LateEndpoints == {"/api/1/last_price/{currency_pair}"}

LateFields == {"timestamp"}

MaxInactive == 1

UpsertVendor(name) ==
  /\ name \notin vendors
  /\ vendors' = vendors \cup {name}
  /\ UNCHANGED <<rest_endpoints, websocket_channels, canonical_fields,
                 data_type_fields, field_mappings,
                 dry_run_output, workers,
                 files, automation, discovery>>

UpsertEndpoint(i) ==
  /\ EndpointCatalog[i].vendor \in vendors
  /\ EndpointRow(i) \notin rest_endpoints
  /\ rest_endpoints' = rest_endpoints \cup {EndpointRow(i)}
  /\ UNCHANGED <<vendors, websocket_channels, canonical_fields,
                 data_type_fields, field_mappings,
                 dry_run_output, workers,
                 files, automation, discovery>>

AddCanonicalField(name, required) ==
  /\ name \notin canonical_fields
  /\ canonical_fields' = canonical_fields \cup {name}
  /\ data_type_fields' = IF required THEN data_type_fields \cup {FieldId(name)}
                                     ELSE data_type_fields
  /\ UNCHANGED <<vendors, rest_endpoints, websocket_channels, field_mappings,
                 dry_run_output, workers,
                 files, automation, discovery>>

Deactivate(r) ==
  /\ r.is_active
  /\ Cardinality({x \in field_mappings : ~x.is_active}) < MaxInactive
  /\ field_mappings' = (field_mappings \ {r}) \cup {[r EXCEPT !.is_active = FALSE]}
  /\ UNCHANGED <<vendors, rest_endpoints, websocket_channels, canonical_fields,
                 data_type_fields, dry_run_output, workers,
                 files, automation, discovery>>

TickerFieldConfigs(cfs) ==
  { {}, {FieldId(n) : n \in cfs \ {"symbol"}}, {FieldId(n) : n \in cfs} }

Init ==
  /\ vendors = Range(VendorNames) \ LateVendors
  /\ rest_endpoints = {EndpointRow(i) : i \in {j \in 1..Len(EndpointCatalog) :
                          /\ EndpointCatalog[j].vendor \in vendors
                          /\ EndpointCatalog[j].path \notin LateEndpoints}}
  /\ websocket_channels = {ChannelRow(i) : i \in {j \in 1..Len(ChannelCatalog) :
                              ChannelCatalog[j].vendor \in vendors}}
  /\ canonical_fields = Range(CanonicalFieldNames) \ LateFields
  /\ data_type_fields \in TickerFieldConfigs(canonical_fields)
  /\ field_mappings = {}
  /\ dry_run_output = NoOutput
  /\ workers = << >>
  /\ files = NoFiles
  /\ automation = Idle
  /\ discovery = NoDiscovery

Next ==
  \/ BitmartPass
  \/ KorbitPass
  \/ ZaifPass
  \/ RestPass
  \/ \E name \in LateVendors : UpsertVendor(name)
  \/ \E i \in 1..Len(EndpointCatalog) : UpsertEndpoint(i)
  \/ \E name \in LateFields : \E required \in BOOLEAN : AddCanonicalField(name, required)

Spec == Init /\ [][Next]_vars

\* The passes over a complete catalogue, with mappings being switched off.
NextCov ==
  \/ BitmartPass
  \/ KorbitPass
  \/ ZaifPass
  \/ RestPass
  \/ \E r \in field_mappings : Deactivate(r)

InitCov ==
  /\ vendors = Range(VendorNames)
  /\ rest_endpoints = {EndpointRow(i) : i \in 1..Len(EndpointCatalog)}
  /\ websocket_channels = {ChannelRow(i) : i \in 1..Len(ChannelCatalog)}
  /\ canonical_fields = Range(CanonicalFieldNames)
  /\ data_type_fields \in TickerFieldConfigs(canonical_fields)
  /\ field_mappings = {}
  /\ dry_run_output = NoOutput
  /\ workers = << >>
  /\ files = NoFiles
  /\ automation = Idle
  /\ discovery = NoDiscovery

SpecCov == InitCov /\ [][NextCov]_vars

\* Concurrent passes.  Two processes run the same script against the same
\* database file, each on its own connection.  field_mappings holds the
\* committed rows; a worker's pending rows are those of its open transaction.
\* A worker is at entry i of its list, about to run the SELECT of
\* create_field_mapping ("select"), its INSERT ("insert") or the commit.
RaceScripts == {"bitmart", "coinbase"}

WorkerIds == {1, 2}

WorkerMappings(script) ==
  IF script = "bitmart" THEN BitmartMappings ELSE CoinbaseRestMappings

WorkerVendor(script) == get_vendor_id(script)

WorkerSource(script) ==
  IF script = "bitmart"
  THEN FetchOne(get_websocket_channel_id(WorkerVendor(script), "spot/ticker"))
  ELSE FetchOne(get_endpoint_id(WorkerVendor(script), "/products/{product_id}/ticker", "GET"))

WorkerPriority(script) == IF script = "bitmart" THEN BitmartPriority ELSE DefaultPriority

WorkerRow(w, id) ==
  ProposedRow(WorkerMappings(w.script), w.i, id, WorkerVendor(w.script),
              IF w.script = "bitmart" THEN "websocket" ELSE "rest",
              WorkerSource(w.script), WorkerPriority(w.script))

\* The rows a connection reads: the committed ones and those of its own
\* open transaction.
Visible(w) == field_mappings \cup w.pending

\* Another connection holds the write lock of the database file.
Locked(id) == \E o \in WorkerIds \ {id} : workers[o].pending # {}

\* The storage-level unique constraint on the natural key of a mapping.
UniqueViolation_Unconstrained(fm, row) == FALSE

UniqueViolation(fm, row) == \E r \in fm : KeyOf(r) = KeyOf(row)

\* The position after entry i: the next entry, or the end of the loop.
Advance(w) ==
  IF w.i < Len(WorkerMappings(w.script))
  THEN [w EXCEPT !.i = w.i + 1, !.phase = "select"]
  ELSE [w EXCEPT !.i = w.i + 1,
                 !.phase = IF w.script = "bitmart" THEN "commit" ELSE "done"]

\* The loop test on the canonical field and the SELECT of create_field_mapping.
WorkerSelect(id) ==
  LET w == workers[id]
      mappings == WorkerMappings(w.script)
  IN /\ w.phase = "select"
     /\ workers' = [workers EXCEPT ![id] =
          IF ~Found(mappings, w.i)
          THEN [Advance(w) EXCEPT !.failed = w.failed + 1]
          ELSE IF MappingExists(IF w.script = "bitmart" THEN "bitmart" ELSE "rest",
                                Visible(w), WorkerVendor(w.script),
                                get_canonical_field_id(mappings[w.i].field),
                                mappings[w.i].path, WorkerSource(w.script))
          THEN [Advance(w) EXCEPT !.created = w.created + 1]
          ELSE [w EXCEPT !.phase = "insert"]]
     /\ UNCHANGED <<vendors, rest_endpoints, websocket_channels, canonical_fields,
                    data_type_fields, field_mappings, dry_run_output,
                 files, automation, discovery>>

\* The INSERT of create_field_mapping.  It raises sqlite3.IntegrityError on
\* the unique constraint; both scripts catch sqlite3.Error and return False,
\* which the loop counts as failed.
WorkerInsert(id) ==
  LET w == workers[id]
      row == WorkerRow(w, NextMappingId(Visible(w), WorkerVendor(w.script)))
  IN /\ w.phase = "insert"
     /\ ~Locked(id)
     /\ workers' = [workers EXCEPT ![id] =
          IF UniqueViolation(Visible(w), row)
          THEN [Advance(w) EXCEPT !.failed = w.failed + 1]
          ELSE IF w.script = "bitmart"
          THEN [Advance(w) EXCEPT !.created = w.created + 1,
                                  !.pending = w.pending \cup {row}]
          ELSE [w EXCEPT !.phase = "commit", !.pending = w.pending \cup {row}]]
     /\ UNCHANGED <<vendors, rest_endpoints, websocket_channels, canonical_fields,
                    data_type_fields, field_mappings, dry_run_output,
                 files, automation, discovery>>

\* The INSERT while another connection holds the write lock and the busy
\* timeout runs out: sqlite3.OperationalError, caught the same way.
WorkerLocked(id) ==
  LET w == workers[id]
  IN /\ w.phase = "insert"
     /\ Locked(id)
     /\ workers' = [workers EXCEPT ![id] = [Advance(w) EXCEPT !.failed = w.failed + 1]]
     /\ UNCHANGED <<vendors, rest_endpoints, websocket_channels, canonical_fields,
                    data_type_fields, field_mappings, dry_run_output,
                 files, automation, discovery>>

\* conn.commit(): after each INSERT for REST, after the loop for BitMart.
WorkerCommit(id) ==
  LET w == workers[id]
  IN /\ w.phase = "commit"
     /\ field_mappings' = field_mappings \cup w.pending
     /\ workers' = [workers EXCEPT ![id] =
          IF w.script = "bitmart"
          THEN [w EXCEPT !.phase = "done", !.pending = {}]
          ELSE [Advance(w) EXCEPT !.created = w.created + 1, !.pending = {}]]
     /\ UNCHANGED <<vendors, rest_endpoints, websocket_channels, canonical_fields,
                    data_type_fields, dry_run_output,
                 files, automation, discovery>>

InitRace ==
  /\ vendors = Range(VendorNames)
  /\ rest_endpoints = {EndpointRow(i) : i \in 1..Len(EndpointCatalog)}
  /\ websocket_channels = {ChannelRow(i) : i \in 1..Len(ChannelCatalog)}
  /\ \E missing \in SUBSET LateFields :
       canonical_fields = Range(CanonicalFieldNames) \ missing
  /\ data_type_fields = {FieldId(n) : n \in canonical_fields}
  /\ field_mappings = {}
  /\ dry_run_output = NoOutput
  /\ \E script \in RaceScripts :
       workers = [id \in WorkerIds |->
                    [script |-> script, i |-> 1, phase |-> "select",
                     created |-> 0, failed |-> 0, pending |-> {}]]
  /\ files = NoFiles
  /\ automation = Idle
  /\ discovery = NoDiscovery

NextRace ==
  \E id \in WorkerIds :
    \/ WorkerSelect(id)
    \/ WorkerInsert(id)
    \/ WorkerLocked(id)
    \/ WorkerCommit(id)

SpecRace == InitRace /\ [][NextRace]_vars

\* Stores with a gap in the catalogue: a vendor, the endpoint or the channel
\* of a pass (by catalogue position), or a canonical field is not there.
NoGap == [vendors |-> {}, endpoints |-> {}, channels |-> {}]

CatalogueGaps ==
  { NoGap,
    [NoGap EXCEPT !.vendors = {"bitmart"}],
    [NoGap EXCEPT !.vendors = {"korbit"}],
    [NoGap EXCEPT !.vendors = {"zaif"}],
    [NoGap EXCEPT !.vendors = {"coinbase"}],
    [NoGap EXCEPT !.channels = {2}],
    [NoGap EXCEPT !.channels = {4}],
    [NoGap EXCEPT !.endpoints = {2}],
    [NoGap EXCEPT !.endpoints = {6}] }

InitDry ==
  /\ \E gap \in CatalogueGaps :
       /\ vendors = Range(VendorNames) \ gap.vendors
       /\ rest_endpoints = {EndpointRow(i) : i \in {j \in 1..Len(EndpointCatalog) :
                               /\ EndpointCatalog[j].vendor \in vendors
                               /\ j \notin gap.endpoints}}
       /\ websocket_channels = {ChannelRow(i) : i \in {j \in 1..Len(ChannelCatalog) :
                                   /\ ChannelCatalog[j].vendor \in vendors
                                   /\ j \notin gap.channels}}
  /\ \E missing \in SUBSET LateFields :
       canonical_fields = Range(CanonicalFieldNames) \ missing
  /\ data_type_fields = {FieldId(n) : n \in canonical_fields}
  /\ field_mappings = {}
  /\ dry_run_output = NoOutput
  /\ workers = << >>
  /\ files = NoFiles
  /\ automation = Idle
  /\ discovery = NoDiscovery

\* Real runs and dry runs of the four scripts, in any order, and the late
\* seeding of a canonical field.
NextDry ==
  \/ BitmartPass
  \/ KorbitPass
  \/ ZaifPass
  \/ RestPass
  \/ BitmartDryRun
  \/ KorbitDryRun
  \/ ZaifDryRun
  \/ RestDryRun
  \/ \E name \in LateFields : \E required \in BOOLEAN : AddCanonicalField(name, required)

SpecDry == InitDry /\ [][NextDry]_vars

(***************************************************************************)
(* add_exchange.py: ExchangeAutomation for one exchange name.  A file is   *)
(* "none" when it does not exist, "old" when it was there before the tool  *)
(* ran and "new" when the tool wrote it.  config/settings.py and           *)
(* spec_generator.py are kept by what the tool's searches find in them.    *)
(***************************************************************************)
Steps ==
  <<"create_adapter", "update_config", "update_spec_generator",
    "create_mapping_script", "update_todo_list">>

\* The lines of AI-EXCHANGE-TODO-LIST.txt, by what update_todo_list looks
\* for in a line.
HeaderLine   == [kind |-> "header", n |-> 0]
OtherItem    == [kind |-> "other", n |-> 0]
OpenItem     == [kind |-> "open", n |-> 0]
ProgressItem == [kind |-> "progress", n |-> 0]
TextLine     == [kind |-> "text", n |-> 0]
CountLine(n) == [kind |-> "count", n |-> n]

TodoLookahead == 20

Min(S) == CHOOSE x \in S : \A y \in S : x <= y

\* list.insert(index, x) of Python, index counted from 0.
ListInsert(lines, index, x) ==
  LET k == IF index > Len(lines) THEN Len(lines) ELSE index
  IN SubSeq(lines, 1, k) \o <<x>> \o SubSeq(lines, k + 1, Len(lines))

AlreadyListed(todo) ==
  \E i \in 1..Len(todo) : todo[i].kind \in {"open", "progress"}

IsListItem(line) == line.kind \in {"open", "progress", "other"}

\* The first loop of update_todo_list: the new line goes before the first
\* list item after the section header, or two lines below the header.
InsertExchange(todo) ==
  LET headers == {i \in 1..Len(todo) : todo[i].kind = "header"}
      i0      == Min(headers) - 1
      last    == IF i0 + TodoLookahead < Len(todo) THEN i0 + TodoLookahead ELSE Len(todo)
      items   == {j0 \in (i0 + 1)..(last - 1) : IsListItem(todo[j0 + 1])}
  IN IF headers = {} THEN todo
     ELSE IF items # {} THEN ListInsert(todo, Min(items), ProgressItem)
     ELSE ListInsert(todo, i0 + 2, ProgressItem)

\* The second loop: the first "Currently Integrated (n/m)" line gets n + 1.
IncrementCount(todo) ==
  LET counts == {i \in 1..Len(todo) : todo[i].kind = "count"}
  IN IF counts = {} THEN todo
     ELSE [todo EXCEPT ![Min(counts)] = CountLine(todo[Min(counts)].n + 1)]

todo_after_update(todo) ==
  IF AlreadyListed(todo) THEN todo
  ELSE IncrementCount(InsertExchange(todo))

\* The five step functions: the files after the step and the exception it
\* raised ("none" when it returned).
create_adapter_Force(f, force) ==
  IF f.adapter # "none" /\ ~force
  THEN [files |-> f, error |-> "FileExistsError"]
  ELSE [files |-> [f EXCEPT !.adapter = "new"], error |-> "none"]

create_adapter(f, force) ==
  IF f.adapter # "none"
  THEN [files |-> f, error |-> "FileExistsError"]
  ELSE [files |-> [f EXCEPT !.adapter = "new"], error |-> "none"]

update_config(f) ==
  IF f.config \in {"has_vendor", "added"} THEN [files |-> f, error |-> "ValueError"]
  ELSE IF f.config = "no_vendors_end" THEN [files |-> f, error |-> "ValueError"]
  ELSE [files |-> [f EXCEPT !.config = "added"], error |-> "none"]

update_spec_generator(f) ==
  IF f.spec_generator \in {"no_imports", "no_create_adapter"}
  THEN [files |-> f, error |-> "ValueError"]
  ELSE IF f.spec_generator \in {"elif_only", "registered"}
  THEN [files |-> f, error |-> "none"]
  ELSE [files |-> [f EXCEPT !.spec_generator = "registered"], error |-> "none"]

create_mapping_script(f) ==
  IF f.mapping_script # "none" THEN [files |-> f, error |-> "none"]
  ELSE [files |-> [f EXCEPT !.mapping_script = "new"], error |-> "none"]

update_todo_list(f) ==
  [files |-> [f EXCEPT !.todo = todo_after_update(f.todo)], error |-> "none"]

step_func(name, f, force) ==
  CASE name = "create_adapter"        -> create_adapter(f, force)
    [] name = "update_config"         -> update_config(f)
    [] name = "update_spec_generator" -> update_spec_generator(f)
    [] name = "create_mapping_script" -> create_mapping_script(f)
    [] OTHER                          -> update_todo_list(f)

MaxRuns == 2

\* main(): the constructor validates the required files, then run() starts.
StartRun(dry_run, force) ==
  /\ automation.status # "running"
  /\ automation.runs < MaxRuns
  /\ automation' =
       IF files.required
       THEN [status |-> "running", dry_run |-> dry_run, force |-> force, step |-> 1,
             completed |-> << >>, error |-> "none", runs |-> automation.runs + 1,
             calls |-> automation.calls]
       ELSE [status |-> "failed", dry_run |-> dry_run, force |-> force, step |-> 0,
             completed |-> << >>, error |-> "FileNotFoundError",
             runs |-> automation.runs + 1, calls |-> automation.calls]
  /\ UNCHANGED <<vendors, rest_endpoints, websocket_channels, canonical_fields,
                 data_type_fields, field_mappings, dry_run_output, workers,
                 files, discovery>>

\* One turn of the loop of run() with dry_run: the step is only logged.
DryStep_Executes ==
  /\ automation.status = "running"
  /\ automation.dry_run
  /\ automation.step <= Len(Steps)
  /\ files' = step_func(Steps[automation.step], files, automation.force).files
  /\ automation' = [automation EXCEPT !.step = @ + 1]
  /\ UNCHANGED <<vendors, rest_endpoints, websocket_channels, canonical_fields,
                 data_type_fields, field_mappings, dry_run_output, workers,
                 discovery>>

DryStep ==
  /\ automation.status = "running"
  /\ automation.dry_run
  /\ automation.step <= Len(Steps)
  /\ automation' = [automation EXCEPT !.step = @ + 1]
  /\ UNCHANGED <<vendors, rest_endpoints, websocket_channels, canonical_fields,
                 data_type_fields, field_mappings, dry_run_output, workers,
                 files, discovery>>

\* One turn of the loop of run() without dry_run: the step function runs;
\* its exception is logged and raised again, which ends the run.
RunStep_SwallowsError ==
  /\ automation.status = "running"
  /\ ~automation.dry_run
  /\ automation.step <= Len(Steps)
  /\ LET out == step_func(Steps[automation.step], files, automation.force)
     IN /\ files' = out.files
        /\ automation' =
             IF out.error = "none"
             THEN [automation EXCEPT !.step = @ + 1,
                                     !.completed = Append(@, Steps[automation.step])]
             ELSE [automation EXCEPT !.step = @ + 1]
  /\ UNCHANGED <<vendors, rest_endpoints, websocket_channels, canonical_fields,
                 data_type_fields, field_mappings, dry_run_output, workers,
                 discovery>>

RunStep ==
  /\ automation.status = "running"
  /\ ~automation.dry_run
  /\ automation.step <= Len(Steps)
  /\ LET out == step_func(Steps[automation.step], files, automation.force)
     IN /\ files' = out.files
        /\ automation' =
             IF out.error = "none"
             THEN [automation EXCEPT !.step = @ + 1,
                                     !.completed = Append(@, Steps[automation.step])]
             ELSE [automation EXCEPT !.status = "failed", !.error = out.error]
  /\ UNCHANGED <<vendors, rest_endpoints, websocket_channels, canonical_fields,
                 data_type_fields, field_mappings, dry_run_output, workers,
                 discovery>>

\* The loop is over: run() returns.
FinishRun ==
  /\ automation.status = "running"
  /\ automation.step > Len(Steps)
  /\ automation' = [automation EXCEPT !.status = "done"]
  /\ UNCHANGED <<vendors, rest_endpoints, websocket_channels, canonical_fields,
                 data_type_fields, field_mappings, dry_run_output, workers,
                 files, discovery>>

\* The project before a run of the tool.
InitialTodos ==
  { << >>,
    <<CountLine(1), HeaderLine, TextLine, OtherItem>>,
    <<CountLine(1), TextLine>>,
    <<HeaderLine, OpenItem>> }

InitialFiles ==
  {NoFiles} \cup
  [required : {TRUE}, adapter : {"none", "old"},
   config : {"plain", "no_vendors_end", "has_vendor"},
   spec_generator : {"plain", "no_imports", "no_create_adapter", "elif_only"},
   mapping_script : {"none", "old"}, todo : InitialTodos]

InitAuto ==
  /\ vendors = {}
  /\ rest_endpoints = {}
  /\ websocket_channels = {}
  /\ canonical_fields = {}
  /\ data_type_fields = {}
  /\ field_mappings = {}
  /\ dry_run_output = NoOutput
  /\ workers = << >>
  /\ files \in InitialFiles
  /\ automation = Idle
  /\ discovery = NoDiscovery

NextAuto ==
  \/ \E dry_run \in BOOLEAN : \E force \in BOOLEAN : StartRun(dry_run, force)
  \/ DryStep
  \/ RunStep
  \/ FinishRun

SpecAuto == InitAuto /\ [][NextAuto]_vars

\* update_todo_list called on its own, again and again, on any TODO list.
MaxTodoLines == 3

MaxCount == 1

MaxCalls == 3

TodoAlphabet ==
  {HeaderLine, OtherItem, OpenItem, ProgressItem, TextLine}
  \cup {CountLine(n) : n \in 0..MaxCount}

TodoLists == UNION {[1..k -> TodoAlphabet] : k \in 0..MaxTodoLines}

UpdateTodoList ==
  /\ automation.calls < MaxCalls
  /\ files' = update_todo_list(files).files
  /\ automation' = [automation EXCEPT !.calls = @ + 1]
  /\ UNCHANGED <<vendors, rest_endpoints, websocket_channels, canonical_fields,
                 data_type_fields, field_mappings, dry_run_output, workers,
                 discovery>>

InitTodo ==
  /\ vendors = {}
  /\ rest_endpoints = {}
  /\ websocket_channels = {}
  /\ canonical_fields = {}
  /\ data_type_fields = {}
  /\ field_mappings = {}
  /\ dry_run_output = NoOutput
  /\ workers = << >>
  /\ \E todo \in TodoLists :
       files = [required |-> TRUE, adapter |-> "none", config |-> "plain",
                spec_generator |-> "plain", mapping_script |-> "none", todo |-> todo]
  /\ automation = Idle
  /\ discovery = NoDiscovery

NextTodo == UpdateTodoList

SpecTodo == InitTodo /\ [][NextTodo]_vars

(***************************************************************************)
(* discover_products of the adapters.  A response is the decoded JSON of   *)
(* the vendor: an envelope that is as expected or not, and the records in  *)
(* it.  Strings are TLA+ strings; PyNone is Python's None (a JSON null or  *)
(* a missing key), NotAString a value of another type (a list).            *)
(***************************************************************************)
PyNone == "<None>"

NotAString == "<list>"

Truthy(x) == x \notin {PyNone, ""}

\* str.split('_') and str.split('/') on the strings of the model.
Split(s) ==
  CASE s = "btc_krw"  -> <<"btc", "krw">>
    [] s = "eth_krw"  -> <<"eth", "krw">>
    [] s = "_krw"     -> <<"", "krw">>
    [] s = "btc_jpy"  -> <<"btc", "jpy">>
    [] s = "_jpy"     -> <<"", "jpy">>
    [] s = "a_b_c"    -> <<"a", "b", "c">>
    [] s = "BTC_USDT" -> <<"BTC", "USDT">>
    [] s = "_USDT"    -> <<"", "USDT">>
    [] s = "A_B_C"    -> <<"A", "B", "C">>
    [] s = "BTC/JPY"  -> <<"BTC", "JPY">>
    [] OTHER          -> <<s>>

\* str.upper() and str.lower().
Upper(s) ==
  CASE s = "btc" -> "BTC"
    [] s = "eth" -> "ETH"
    [] s = "krw" -> "KRW"
    [] s = "jpy" -> "JPY"
    [] s = "btcjpy" -> "BTCJPY"
    [] OTHER     -> s

Lower(s) ==
  CASE s = "ONLINE" -> "online"
    [] s = "Gray"   -> "gray"
    [] OTHER        -> s

\* float(x): the exception it raises, "none" when it returns a number.
FloatError(x) ==
  CASE x = "abc"      -> "ValueError"
    [] x = NotAString -> "TypeError"
    [] x = PyNone     -> "TypeError"
    [] OTHER          -> "none"

\* What the loop does with one record: append its product, skip it, or
\* let an exception out of the loop.
Skip == [outcome |-> "skip", product |-> PyNone]

Abort == [outcome |-> "abort", product |-> PyNone]

Product(symbol, base_currency, quote_currency, status, vendor_metadata) ==
  [outcome |-> "product",
   product |-> [status |-> status, symbol |-> symbol,
                base_currency |-> base_currency, quote_currency |-> quote_currency,
                vendor_metadata |-> vendor_metadata]]

\* The products of the records, in their order; an exception out of the
\* loop, or (where the adapter tests it) an empty list, fails the run.
RECURSIVE Products(_)
Products(outs) ==
  IF outs = << >> THEN << >>
  ELSE IF Head(outs).outcome = "product"
  THEN <<Head(outs).product>> \o Products(Tail(outs))
  ELSE Products(Tail(outs))

Collect(outs, empty_fails) ==
  IF \E i \in 1..Len(outs) : outs[i].outcome = "abort"
  THEN [error |-> "Exception", products |-> << >>]
  ELSE IF Products(outs) = << >> /\ empty_fails
  THEN [error |-> "Exception", products |-> << >>]
  ELSE [error |-> "none", products |-> Products(outs)]

Failed == [error |-> "Exception", products |-> << >>]

\* Bitget.
bitget_status_Raw(status_raw) == status_raw

bitget_status(status_raw) ==
  IF status_raw = "online" THEN "online"
  ELSE IF status_raw = "gray" THEN "online"
  ELSE IF status_raw = "offline" THEN "offline"
  ELSE "offline"

bitget_record(r) ==
  IF ~r.is_dict THEN Abort
  ELSE IF r.status \in {PyNone, NotAString} THEN Skip
  ELSE IF Truthy(r.minTradeAmount) /\ FloatError(r.minTradeAmount) = "TypeError" THEN Skip
  ELSE IF ~(Truthy(r.symbol) /\ Truthy(r.baseCoin) /\ Truthy(r.quoteCoin)) THEN Skip
  ELSE Product(r.symbol, r.baseCoin, r.quoteCoin, bitget_status(Lower(r.status)), r)

bitget_discover_products(response) ==
  IF response.envelope # "ok" THEN Failed
  ELSE Collect([i \in 1..Len(response.records) |-> bitget_record(response.records[i])],
               TRUE)

\* Binance.
binance_record(r) ==
  IF ~r.is_dict THEN Abort
  ELSE IF r.status # "TRADING" THEN Skip
  ELSE Product(r.symbol, r.baseAsset, r.quoteAsset,
               IF r.status = "TRADING" THEN "online" ELSE "offline", r)

binance_discover_products(response) ==
  IF response.envelope # "ok" THEN [error |-> "none", products |-> << >>]
  ELSE Collect([i \in 1..Len(response.records) |-> binance_record(response.records[i])],
               FALSE)

\* BitMart: the records are the symbol strings.
bitmart_record(symbol) ==
  IF symbol = PyNone THEN Abort
  ELSE IF Len(Split(symbol)) >= 2
  THEN Product(symbol, Split(symbol)[1], Split(symbol)[2], "online", symbol)
  ELSE Product(symbol, symbol, "UNKNOWN", "online", symbol)

bitmart_discover_products(response) ==
  IF response.envelope # "ok" THEN Failed
  ELSE Collect([i \in 1..Len(response.records) |-> bitmart_record(response.records[i])],
               TRUE)

\* Zaif.
zaif_symbol(currency_pair, name) ==
  IF Truthy(currency_pair) /\ Len(Split(currency_pair)) = 2
  THEN Upper(Split(currency_pair)[1]) \o "-" \o Upper(Split(currency_pair)[2])
  ELSE IF Len(Split(name)) = 2 THEN Split(name)[1] \o "-" \o Split(name)[2]
  ELSE Upper(name)

zaif_record(r) ==
  IF ~r.is_dict THEN Abort
  ELSE IF r.currency_pair = NotAString THEN Skip
  ELSE IF Truthy(r.currency_pair) /\ Len(Split(r.currency_pair)) >= 2
  THEN IF Len(Split(r.currency_pair)) # 2 THEN Skip
       ELSE IF ~(Truthy(Upper(Split(r.currency_pair)[1])) /\ Truthy(Upper(Split(r.currency_pair)[2])))
       THEN Skip
       ELSE Product(zaif_symbol(r.currency_pair, r.name),
                    Upper(Split(r.currency_pair)[1]), Upper(Split(r.currency_pair)[2]),
                    "online", r)
  ELSE IF Truthy(r.name) /\ Len(Split(r.name)) = 2
  THEN Product(zaif_symbol(r.currency_pair, r.name),
               Upper(Split(r.name)[1]), Upper(Split(r.name)[2]), "online", r)
  ELSE Skip

zaif_discover_products(response) ==
  IF response.envelope # "ok" THEN Failed
  ELSE Collect([i \in 1..Len(response.records) |-> zaif_record(response.records[i])],
               TRUE)

\* Korbit: the records are the items of the 'exchange' dictionary.
korbit_record(r) ==
  IF Len(Split(r.currency_pair)) # 2 THEN Skip
  ELSE Product(Upper(Split(r.currency_pair)[1]) \o "-" \o Upper(Split(r.currency_pair)[2]),
               Upper(Split(r.currency_pair)[1]), Upper(Split(r.currency_pair)[2]),
               "online", r)

korbit_discover_products(response) ==
  IF response.envelope # "ok" THEN Failed
  ELSE Collect([i \in 1..Len(response.records) |-> korbit_record(response.records[i])],
               TRUE)

\* The vendor responses of the model.
MaxRecords == 2

BitgetDict(symbol, baseCoin, quoteCoin, status, minTradeAmount) ==
  [status |-> status, symbol |-> symbol, is_dict |-> TRUE,
   minTradeAmount |-> minTradeAmount, baseCoin |-> baseCoin, quoteCoin |-> quoteCoin]

BitgetRecords ==
  { BitgetDict("BTCUSDT", "BTC", "USDT", "online", "0.01"),
    BitgetDict("ETHUSDT", "ETH", "USDT", "Gray", "abc"),
    BitgetDict("XRPUSDT", "XRP", "USDT", "offline", PyNone),
    BitgetDict("LTCUSDT", "LTC", "USDT", "halt", "0.01"),
    BitgetDict("ADAUSDT", "ADA", "USDT", PyNone, "0.01"),
    BitgetDict("SOLUSDT", "SOL", "USDT", "online", NotAString),
    BitgetDict("USDT", "", "USDT", "online", "0.01"),
    BitgetDict(PyNone, "BTC", "USDT", "ONLINE", "0.01"),
    [status |-> PyNone, symbol |-> PyNone, is_dict |-> FALSE,
     minTradeAmount |-> PyNone, baseCoin |-> PyNone, quoteCoin |-> PyNone] }

BinanceDict(symbol, baseAsset, quoteAsset, status) ==
  [status |-> status, symbol |-> symbol, is_dict |-> TRUE,
   baseAsset |-> baseAsset, quoteAsset |-> quoteAsset]

BinanceRecords ==
  { BinanceDict("BTCUSDT", "BTC", "USDT", "TRADING"),
    BinanceDict("ETHUSDT", "ETH", "USDT", "BREAK"),
    BinanceDict("XRPUSDT", "XRP", "USDT", "HALT"),
    BinanceDict(PyNone, "BTC", "USDT", "TRADING"),
    BinanceDict("LTCUSDT", "", "USDT", "TRADING"),
    BinanceDict("ADAUSDT", "ADA", "USDT", PyNone),
    [status |-> PyNone, symbol |-> PyNone, is_dict |-> FALSE,
     baseAsset |-> PyNone, quoteAsset |-> PyNone] }

BitmartRecords == {"BTC_USDT", "_USDT", "BTCUSDT", "A_B_C", "", PyNone}

ZaifDict(currency_pair, name) == [name |-> name, is_dict |-> TRUE, currency_pair |-> currency_pair]

ZaifRecords ==
  { ZaifDict("btc_jpy", "BTC/JPY"),
    ZaifDict("_jpy", "BTC/JPY"),
    ZaifDict("btcjpy", "BTC/JPY"),
    ZaifDict("a_b_c", "BTC/JPY"),
    ZaifDict("", "BTC/JPY"),
    ZaifDict(PyNone, ""),
    ZaifDict(NotAString, "BTC/JPY"),
    [name |-> PyNone, is_dict |-> FALSE, currency_pair |-> PyNone] }

KorbitItem(currency_pair, info_is_dict) == [is_dict |-> info_is_dict, currency_pair |-> currency_pair]

KorbitRecords ==
  { KorbitItem("btc_krw", TRUE),
    KorbitItem("eth_krw", FALSE),
    KorbitItem("_krw", TRUE),
    KorbitItem("btckrw", TRUE),
    KorbitItem("a_b_c", TRUE) }

Responses(records) ==
  [envelope : {"ok", "bad"}, records : UNION {[1..k -> records] : k \in 0..MaxRecords}]

\* One discovery run of an adapter on a response of its vendor.
Discovered(adapter, response, out) ==
  /\ discovery.adapter = "none"
  /\ discovery' = [adapter |-> adapter, error |-> out.error, response |-> response,
                   products |-> out.products]
  /\ UNCHANGED <<vendors, rest_endpoints, websocket_channels, canonical_fields,
                 data_type_fields, field_mappings, dry_run_output, workers,
                 files, automation>>

BitgetDiscover ==
  \E response \in Responses(BitgetRecords) :
     Discovered("bitget", response, bitget_discover_products(response))

BinanceDiscover ==
  \E response \in Responses(BinanceRecords) :
     Discovered("binance", response, binance_discover_products(response))

BitmartDiscover ==
  \E response \in Responses(BitmartRecords) :
     Discovered("bitmart", response, bitmart_discover_products(response))

ZaifDiscover ==
  \E response \in Responses(ZaifRecords) :
     Discovered("zaif", response, zaif_discover_products(response))

\* The keys of a dictionary are distinct.
KorbitDiscover ==
  \E response \in Responses(KorbitRecords) :
     /\ \A i \in 1..Len(response.records) : \A j \in 1..Len(response.records) :
           response.records[i].currency_pair = response.records[j].currency_pair => i = j
     /\ Discovered("korbit", response, korbit_discover_products(response))

InitDiscovery ==
  /\ vendors = {}
  /\ rest_endpoints = {}
  /\ websocket_channels = {}
  /\ canonical_fields = {}
  /\ data_type_fields = {}
  /\ field_mappings = {}
  /\ dry_run_output = NoOutput
  /\ workers = << >>
  /\ files = NoFiles
  /\ automation = Idle
  /\ discovery = NoDiscovery

NextDiscovery ==
  \/ BitgetDiscover
  \/ BinanceDiscover
  \/ BitmartDiscover
  \/ ZaifDiscover
  \/ KorbitDiscover

SpecDiscovery == InitDiscovery /\ [][NextDiscovery]_vars

TypeOK ==
  /\ vendors \subseteq Range(VendorNames)
  /\ canonical_fields \subseteq Range(CanonicalFieldNames)
  /\ \A r \in field_mappings : r.mapping_id \in 1..Cardinality(field_mappings)
  /\ data_type_fields \subseteq {FieldId(n) : n \in canonical_fields}

(***************************************************************************)
(* Properties.                                                             *)
(***************************************************************************)
VendorIds == {VendorId(v) : v \in vendors}

FieldIds == {FieldId(n) : n \in canonical_fields}

RowsOf(fm, vendor_name) == {r \in fm : r.vendor_id = VendorId(vendor_name)}

\* No two rows share vendor, canonical field, source and vendor path.
OneRowPerMapping(fm) ==
  \A r1, r2 \in fm :
     (/\ r1.vendor_id = r2.vendor_id
      /\ r1.canonical_field_id = r2.canonical_field_id
      /\ r1.source_type = r2.source_type
      /\ r1.vendor_field_path = r2.vendor_field_path) => r1 = r2

\* C1: a registration pass run again on the store it has just left inserts no
\* row, for each of the four scripts, and the store never holds two rows for
\* one (vendor, canonical field, source, vendor_field_path).
C1_SecondRunInsertsNothing ==
  /\ OneRowPerMapping(field_mappings)
  /\ LET once == map_bitmart_ticker_fields(field_mappings).fm
     IN map_bitmart_ticker_fields(once).fm = once
  /\ \A ch1, ch2 \in KorbitTickerChannel :
       LET once == korbit_create_mappings(field_mappings, ch1).fm
       IN korbit_create_mappings(once, ch2).fm = once
  /\ \A ep1, ep2 \in ZaifEndpoints :
       LET once == zaif_create_mappings(field_mappings, ep1[1], ep1[2]).fm
       IN zaif_create_mappings(once, ep2[1], ep2[2]).fm = once
  /\ LET once == map_all_rest_tickers(field_mappings).fm
     IN map_all_rest_tickers(once).fm = once

\* Every script has stored its mappings (and the premise of a second run holds).
C1_Witness ==
  /\ \A v \in {"bitmart", "korbit", "zaif", "coinbase", "binance", "bitfinex"} :
       RowsOf(field_mappings, v) # {}
  /\ map_bitmart_ticker_fields(field_mappings).fm = field_mappings
  /\ map_all_rest_tickers(field_mappings).fm = field_mappings

\* The registrations the four passes would skip as "already exists" in this
\* state, as full uniqueness keys.
SkippedNow ==
  UNION { map_bitmart_ticker_fields(field_mappings).skipped,
          UNION {korbit_create_mappings(field_mappings, ch).skipped :
                   ch \in KorbitTickerChannel},
          UNION {zaif_create_mappings(field_mappings, ep[1], ep[2]).skipped :
                   ep \in ZaifEndpoints},
          map_all_rest_tickers(field_mappings).skipped }

\* C2: a registration is skipped as "already exists" only when a stored row
\* has the same uniqueness key (vendor, canonical field, source type, vendor
\* path, endpoint or channel).
C2_SkippedOnlyOnFullKey ==
  \A k \in SkippedNow : \E r \in field_mappings : KeyOf(r) = k

\* C3: every stored mapping references exactly one of endpoint / channel, the
\* one of its source type.
C3_ExactlyOneSource ==
  \A r \in field_mappings :
     /\ r.source_type = "rest" => (r.endpoint_id # NULL /\ r.channel_id = NULL)
     /\ r.source_type = "websocket" => (r.channel_id # NULL /\ r.endpoint_id = NULL)

\* C4: the endpoint or channel a stored mapping references is a row of the
\* mapping's own vendor.
C4_SourceOfSameVendor ==
  \A r \in field_mappings :
     /\ r.endpoint_id # NULL =>
          \E e \in rest_endpoints : e.endpoint_id = r.endpoint_id
                                    /\ e.vendor_id = r.vendor_id
     /\ r.channel_id # NULL =>
          \E c \in websocket_channels : c.channel_id = r.channel_id
                                        /\ c.vendor_id = r.vendor_id

\* Mappings of a websocket pass and of REST passes are stored, for vendors
\* whose catalogues share channel names.
C4_Witness ==
  /\ \E r \in RowsOf(field_mappings, "korbit") : r.channel_id # NULL
  /\ \E r \in RowsOf(field_mappings, "bitmart") : r.channel_id # NULL
  /\ \E r \in RowsOf(field_mappings, "zaif") : r.endpoint_id # NULL
  /\ \E r \in RowsOf(field_mappings, "binance") : r.endpoint_id # NULL
  /\ \E c \in websocket_channels : c.vendor_id = VendorId("binance")
                                   /\ c.channel_name = "ticker"

BitmartRan ==
  \E r1, r2 \in RowsOf(field_mappings, "bitmart") :
     /\ r1.vendor_field_path = "data[].last_price"
     /\ r2.vendor_field_path = "data[].close_24h"

\* C5: after the BitMart pass, last_price of (bitmart, ticker, websocket)
\* resolves to the direct mapping data[].last_price.
C5_LastPriceResolvesToDirectMapping ==
  BitmartRan =>
    {r.vendor_field_path :
       r \in resolve(field_mappings, VendorId("bitmart"), "ticker", "websocket",
                     FieldId("last_price"))} = {"data[].last_price"}

\* The orders in which the rows of S can have been created.
CreationOrders(S) ==
  LET ids == {r.mapping_id : r \in S}
  IN {f \in [ids -> ids] : \A a, b \in ids : f[a] = f[b] => a = b}

\* C6: the vendor path selected by resolution does not depend on the order in
\* which the candidate mappings were registered.
C6_ResolutionIgnoresRegistrationOrder ==
  \A v \in VendorIds : \A f \in FieldIds : \A src \in {"rest", "websocket"} :
     LET cands == Candidates(field_mappings, v, "ticker", src, f)
     IN \A order \in CreationOrders(cands) :
          {r.vendor_field_path : r \in Best(cands, order)}
            = {r.vendor_field_path : r \in resolve(field_mappings, v, "ticker", src, f)}

Coverage == get_exchange_ticker_coverage(vendors, canonical_fields,
                                         data_type_fields, field_mappings)

\* The required ticker fields that have an active ticker mapping of the vendor.
MappedRequiredFields(cfs, dtf, fm, vendor_id) ==
  {id \in {x \in dtf : \E n \in cfs : FieldId(n) = x} :
     \E r \in fm : /\ r.vendor_id = vendor_id
                   /\ r.canonical_field_id = id
                   /\ r.entity_type = "ticker"
                   /\ r.is_active}

\* C7: the reported fields_mapped of a vendor is the number of required ticker
\* fields with an active ticker mapping; it never exceeds the number of
\* defined fields and the percentage never exceeds 100.
C7_FieldsMappedCountsRequiredFields ==
  \A v \in DOMAIN Coverage :
     /\ Coverage[v].mappings =
          Cardinality(MappedRequiredFields(canonical_fields, data_type_fields,
                                           field_mappings, VendorId(v)))
     /\ Coverage[v].mappings <=
          get_total_canonical_ticker_fields(canonical_fields, data_type_fields)
     /\ Coverage[v].coverage_percent <= 1000

CoverageNext == get_exchange_ticker_coverage(vendors', canonical_fields',
                                             data_type_fields', field_mappings')

\* Row r is the only active ticker mapping of its vendor for its field.
OnlyActiveMapping(fm, r) ==
  /\ r.is_active
  /\ r.entity_type = "ticker"
  /\ ~\E o \in fm \ {r} : /\ o.vendor_id = r.vendor_id
                          /\ o.canonical_field_id = r.canonical_field_id
                          /\ o.entity_type = "ticker"
                          /\ o.is_active

\* C8: switching off the only active mapping of a required ticker field
\* lowers the vendor's reported fields_mapped by one; the row stays stored.
C8_DeactivationLowersFieldsMapped ==
  [][\A r \in field_mappings :
       (/\ field_mappings' = (field_mappings \ {r}) \cup {[r EXCEPT !.is_active = FALSE]}
        /\ OnlyActiveMapping(field_mappings, r)
        /\ r.canonical_field_id \in data_type_fields)
       => /\ [r EXCEPT !.is_active = FALSE] \in field_mappings'
          /\ CoverageNext[VendorNames[r.vendor_id]].mappings
               = Coverage[VendorNames[r.vendor_id]].mappings - 1]_vars

\* The canonical fields that get their first active ticker mapping of the
\* vendor in the step from fm to fm2.
NewlyMapped(fm, fm2, vendor_id) ==
  {f \in {r.canonical_field_id : r \in fm2} :
     /\ \E r \in fm2 : /\ r.vendor_id = vendor_id /\ r.canonical_field_id = f
                       /\ r.entity_type = "ticker" /\ r.is_active
     /\ ~\E r \in fm : /\ r.vendor_id = vendor_id /\ r.canonical_field_id = f
                       /\ r.entity_type = "ticker" /\ r.is_active}

StatusRows == coverage_items(vendors, canonical_fields,
                             data_type_fields, field_mappings)

StatusRowsNext == coverage_items(vendors', canonical_fields',
                                 data_type_fields', field_mappings')

Average == get_average_ticker_coverage(vendors, canonical_fields,
                                       data_type_fields, field_mappings)

C11_UnmappedVendorReportedZero ==
  get_total_canonical_ticker_fields(canonical_fields, data_type_fields) > 0
  => \A v \in vendors :
        RowsOf(field_mappings, v) = {}
        => /\ v \in DOMAIN Coverage
           /\ Coverage[v].mappings = 0
           /\ Coverage[v].coverage_percent = 0
           /\ ~Coverage[v].raised

\* zaif has no mapping yet while other vendors have, with ticker fields defined.
C11_Witness ==
  /\ get_total_canonical_ticker_fields(canonical_fields, data_type_fields) > 0
  /\ "zaif" \in vendors
  /\ RowsOf(field_mappings, "zaif") = {}
  /\ RowsOf(field_mappings, "bitmart") # {}

\* Vendor names in ascending order.
NameOrder ==
  <<"binance", "bitfinex", "bitmart", "coinbase", "korbit", "kraken", "zaif">>

Leaders == get_coverage_leaders(LeadersLimit, vendors, canonical_fields,
                                data_type_fields, field_mappings)

\* C12: get_coverage_leaders(limit) returns at most limit vendors by
\* descending coverage, vendors of equal coverage in ascending name order,
\* and one store state yields one list.
C12_LeadersOrderedDeterministic ==
  /\ Cardinality(Leaders) = 1
  /\ \A s \in Leaders :
       /\ Len(s) <= LeadersLimit
       /\ \A i, j \in 1..Len(s) :
            i < j => \/ s[i].coverage > s[j].coverage
                     \/ /\ s[i].coverage = s[j].coverage
                        /\ IndexOf(NameOrder, s[i].vendor) < IndexOf(NameOrder, s[j].vendor)

\* The batch of one vendor went from store before to store after: an entry
\* whose canonical field is missing left no row, every other entry is stored.
BatchContinues(mappings, vendor_name, before, after) ==
  \A i \in 1..Len(mappings) :
     LET rows == {r \in after : /\ r.vendor_id = VendorId(vendor_name)
                                /\ r.vendor_field_path = mappings[i].path}
     IN IF Found(mappings, i)
        THEN \E r \in rows : r.canonical_field_id = get_canonical_field_id(mappings[i].field)
        ELSE /\ \A r \in rows : r \in before
             /\ \A r \in rows : r.canonical_field_id # NULL

\* The vendor and the endpoint of a REST pass are in the store.
RestSourceFound(vendor_name, path) ==
  /\ get_vendor_id(vendor_name) # NULL
  /\ get_endpoint_id(get_vendor_id(vendor_name), path, "GET") # {}

\* C13: in each registration pass a proposed mapping with an unknown canonical
\* field is skipped without a row, and the entries after it whose canonical
\* field exists are still registered.
C13_MissingFieldSkippedBatchContinues ==
  /\ (get_vendor_id("bitmart") # NULL
      /\ get_websocket_channel_id(get_vendor_id("bitmart"), "spot/ticker") # {})
     => LET out == map_bitmart_ticker_fields(field_mappings)
        IN /\ BatchContinues(BitmartMappings, "bitmart", field_mappings, out.fm)
           /\ out.failed = Cardinality({i \in 1..Len(BitmartMappings) :
                                          ~Found(BitmartMappings, i)})
  /\ \A ch \in KorbitTickerChannel \ {NULL} :
        BatchContinues(KorbitMappings, "korbit", field_mappings,
                       korbit_create_mappings(field_mappings, ch).fm)
  /\ \A ep \in ZaifEndpoints :
        ep[1] # NULL
        => BatchContinues(ZaifMappings, "zaif", field_mappings,
                          zaif_create_mappings(field_mappings, ep[1], ep[2]).fm)
  /\ LET out == map_all_rest_tickers(field_mappings)
     IN /\ RestSourceFound("coinbase", "/products/{product_id}/ticker")
           => BatchContinues(CoinbaseRestMappings, "coinbase", field_mappings, out.fm)
        /\ RestSourceFound("binance", "/api/v3/ticker/24hr")
           => BatchContinues(BinanceRestMappings, "binance", field_mappings, out.fm)
        /\ RestSourceFound("kraken", "/0/public/Ticker")
           => BatchContinues(KrakenRestMappings, "kraken", field_mappings, out.fm)
        /\ RestSourceFound("bitfinex", "/v2/ticker/{symbol}")
           => BatchContinues(BitfinexRestMappings, "bitfinex", field_mappings, out.fm)

\* The canonical field timestamp is missing; the BitMart and Korbit passes
\* have run, skipped their timestamp entry and stored the entry after it.
C13_Witness ==
  /\ "timestamp" \notin canonical_fields
  /\ \E r \in RowsOf(field_mappings, "bitmart") : r.vendor_field_path = "data[].close_24h"
  /\ ~\E r \in RowsOf(field_mappings, "bitmart") : r.vendor_field_path = "data[].timestamp"
  /\ \E r \in RowsOf(field_mappings, "korbit") : r.vendor_field_path = "currency_pair"
  /\ ~\E r \in RowsOf(field_mappings, "korbit") : r.vendor_field_path = "timestamp"

\* C14: when the vendor of a pass, or its ticker endpoint or channel, is not
\* in the store, the pass leaves field_mappings as it is and reports zero
\* mappings; no row of that vendor is ever stored.
C14_MissingVendorOrSourceAborts ==
  /\ (\/ get_vendor_id("bitmart") = NULL
      \/ get_websocket_channel_id(get_vendor_id("bitmart"), "spot/ticker") = {})
     => /\ map_bitmart_ticker_fields(field_mappings).fm = field_mappings
        /\ map_bitmart_ticker_fields(field_mappings).created = 0
        /\ RowsOf(field_mappings, "bitmart") = {}
  /\ KorbitTickerChannel = {NULL}
     => /\ korbit_create_mappings(field_mappings, NULL).fm = field_mappings
        /\ korbit_create_mappings(field_mappings, NULL).created = 0
        /\ RowsOf(field_mappings, "korbit") = {}
  /\ ZaifEndpoints = {<<NULL, NULL>>}
     => /\ zaif_create_mappings(field_mappings, NULL, NULL).fm = field_mappings
        /\ zaif_create_mappings(field_mappings, NULL, NULL).created = 0
        /\ RowsOf(field_mappings, "zaif") = {}
  /\ \A i \in 1..Len(DryRunExchanges) :
        ~RestSourceFound(DryRunExchanges[i].vendor, DryRunExchanges[i].path)
        => /\ map_rest_ticker(field_mappings, DryRunExchanges[i].vendor,
                              DryRunExchanges[i].path,
                              DryRunExchanges[i].mappings).fm = field_mappings
           /\ map_all_rest_tickers(field_mappings).results[DryRunExchanges[i].vendor] = 0
           /\ RowsOf(field_mappings, DryRunExchanges[i].vendor) = {}

\* The REST pass has run on a store without the binance ticker endpoint: the
\* other vendors have their rows, binance has none.
C14_Witness ==
  /\ "binance" \in vendors
  /\ ~RestSourceFound("binance", "/api/v3/ticker/24hr")
  /\ RowsOf(field_mappings, "coinbase") # {}
  /\ RowsOf(field_mappings, "bitfinex") # {}
  /\ RowsOf(field_mappings, "binance") = {}

\* C15: a step that displays a dry run leaves every table as it is.
C15_DryRunLeavesStoreUnchanged ==
  [][dry_run_output' # dry_run_output
     => UNCHANGED <<vendors, rest_endpoints, websocket_channels, canonical_fields,
                    data_type_fields, field_mappings>>]_vars

\* The Korbit dry run has listed its mappings and no Korbit row is stored,
\* while real runs of other scripts have stored theirs.
C15_Witness ==
  /\ dry_run_output.script = "korbit"
  /\ dry_run_output.lines # {}
  /\ RowsOf(field_mappings, "korbit") = {}
  /\ RowsOf(field_mappings, "bitmart") # {}

\* The proposed mappings of a list, as (vendor, vendor path, canonical field).
Entries(vendor_name, mappings) ==
  {<<vendor_name, mappings[i].path, mappings[i].field>> : i \in 1..Len(mappings)}

RestEntries ==
  UNION {Entries(DryRunExchanges[i].vendor, DryRunExchanges[i].mappings) :
           i \in 1..Len(DryRunExchanges)}

\* What a dry run reports as going to be mapped, and as skipped.
DryRunMapped(out) ==
  {<<l.vendor, l.path, l.field>> :
     l \in {x \in out.lines : x.found /\ x.vendor \notin out.flagged}}

DryRunSkipped(out, entries) ==
  {<<l.vendor, l.path, l.field>> :
     l \in {x \in out.lines : ~x.found \/ x.vendor \in out.flagged}}
  \cup {e \in entries : e[1] \in out.flagged}

\* What a real run registers: the entries that have their row when it ends.
RealRunMapped(entries, after) ==
  {e \in entries : \E r \in after : /\ r.vendor_id = VendorId(e[1])
                                    /\ r.vendor_field_path = e[2]
                                    /\ r.canonical_field_id = FieldId(e[3])}

DryRunAgrees(out, entries, after) ==
  /\ DryRunMapped(out) = RealRunMapped(entries, after)
  /\ DryRunSkipped(out, entries) = entries \ RealRunMapped(entries, after)

\* C16: from every store state, a dry run reports as going to be mapped the
\* mappings a real run from that state registers, and as skipped the ones
\* the real run skips.
C16_DryRunMatchesRealRun ==
  /\ DryRunAgrees(bitmart_dry_run(field_mappings).output,
                  Entries("bitmart", BitmartMappings),
                  map_bitmart_ticker_fields(field_mappings).fm)
  /\ \A ch \in KorbitTickerChannel :
        DryRunAgrees(korbit_dry_run(field_mappings, ch).output,
                     Entries("korbit", KorbitMappings),
                     korbit_create_mappings(field_mappings, ch).fm)
  /\ \A ep \in ZaifEndpoints :
        DryRunAgrees(zaif_dry_run(field_mappings, ep[1], ep[2]).output,
                     Entries("zaif", ZaifMappings),
                     zaif_create_mappings(field_mappings, ep[1], ep[2]).fm)
  /\ DryRunAgrees(dry_run_display(field_mappings).output, RestEntries,
                  map_all_rest_tickers(field_mappings).fm)

\* The rows of the store, committed or in an open transaction.
AllRows == field_mappings \cup UNION {workers[id].pending : id \in DOMAIN workers}

LosesRace(id) ==
  /\ workers[id].phase = "insert"
  /\ ~Locked(id)
  /\ UniqueViolation(Visible(workers[id]), WorkerRow(workers[id], NULL))

C18_LostRaceCountsAsSuccess ==
  [][\A id \in DOMAIN workers :
       (LosesRace(id) /\ workers'[id] # workers[id])
       => /\ workers'[id].created = workers[id].created + 1
          /\ workers'[id].failed = workers[id].failed]_vars

\* The rows without their surrogate key.
Content(fm) == {[r EXCEPT !.mapping_id = NULL] : r \in fm}

\* A pass keeps every row and adds rows of its own vendor only.
OnlyAdds(vendor_name, before, after) ==
  /\ before \subseteq after
  /\ \A r \in after \ before : r.vendor_id = VendorId(vendor_name)

RestVendors == {"coinbase", "binance", "kraken", "bitfinex"}

RestPassOf(vendor_name, fm) ==
  CASE vendor_name = "coinbase" -> map_coinbase_rest_ticker(fm)
    [] vendor_name = "binance"  -> map_binance_rest_ticker(fm)
    [] vendor_name = "kraken"   -> map_kraken_rest_ticker(fm)
    [] OTHER                    -> map_bitfinex_rest_ticker(fm)

C20_MappingsOnlyGrow ==
  [][\A r \in field_mappings :
       \E q \in field_mappings' :
          /\ q.mapping_id = r.mapping_id
          /\ q.vendor_id = r.vendor_id
          /\ q.vendor_field_path = r.vendor_field_path
          /\ q.canonical_field_id = r.canonical_field_id
          /\ q.source_type = r.source_type
          /\ q.endpoint_id = r.endpoint_id
          /\ q.channel_id = r.channel_id
          /\ q.transformation_rule = r.transformation_rule
          /\ q.priority = r.priority]_vars

\* The passes ran before the timestamp field was seeded and again after it,
\* and a dry run was displayed: the first rows are there with the late one.
C20_Witness ==
  /\ \E r \in RowsOf(field_mappings, "bitmart") : r.vendor_field_path = "data[].timestamp"
  /\ \E r \in RowsOf(field_mappings, "bitmart") :
        /\ r.vendor_field_path # "data[].timestamp"
        /\ r.mapping_id < Len(BitmartMappings)
  /\ \E r \in RowsOf(field_mappings, "bitmart") :
        /\ r.vendor_field_path = "data[].timestamp"
        /\ r.mapping_id = Len(BitmartMappings)
  /\ dry_run_output.script # "none"

\* The count a pass reports is the number of rows the run added.
CountsNewRows(out, before) == out.created = Cardinality(out.fm \ before)

\* C21: the created count of every pass equals the number of rows the run
\* newly inserted, so a pass over mappings that are all stored reports zero.
C21_CreatedCountsNewRows ==
  /\ CountsNewRows(map_bitmart_ticker_fields(field_mappings), field_mappings)
  /\ \A ch \in KorbitTickerChannel :
        CountsNewRows(korbit_create_mappings(field_mappings, ch), field_mappings)
  /\ \A ep \in ZaifEndpoints :
        CountsNewRows(zaif_create_mappings(field_mappings, ep[1], ep[2]), field_mappings)
  /\ \A v \in RestVendors : CountsNewRows(RestPassOf(v, field_mappings), field_mappings)

\* C22: a dry run of add_exchange executes no step function and changes no
\* file, whatever the files are.
C22_DryRunExecutesNothing ==
  [][automation'.dry_run => (files' = files /\ automation'.completed = << >>)]_vars

\* A dry run went through its five steps on a project without the adapter,
\* and the adapter is still not there.
C22_Witness ==
  /\ automation.dry_run
  /\ automation.status = "done"
  /\ files.required
  /\ files.adapter = "none"
  /\ files.config = "plain"

\* C23: a run with --force does not fail on an adapter file or config entry
\* that already exists.
C23_ForceOverwrites ==
  (automation.force /\ ~automation.dry_run /\ automation.status = "failed")
  => /\ automation.error # "FileExistsError"
     /\ ~(automation.step = 2 /\ files.config \in {"has_vendor", "added"})

\* The effect of a completed step is in the files.
StepEffectKept(name) ==
  CASE name = "create_adapter"        -> files.adapter = "new"
    [] name = "update_config"         -> files.config = "added"
    [] name = "update_spec_generator" -> files.spec_generator \in {"registered", "elif_only"}
    [] name = "create_mapping_script" -> files.mapping_script # "none"
    [] OTHER                          -> TRUE

\* C28, the state part: the completed steps are the first ones of the list,
\* in its order, and what they wrote is in place, also after a failure.
C28_StepsInOrder ==
  /\ automation.completed = SubSeq(Steps, 1, Len(automation.completed))
  /\ \A i \in 1..Len(automation.completed) : StepEffectKept(automation.completed[i])
  /\ (automation.status = "running" /\ ~automation.dry_run)
     => automation.step = Len(automation.completed) + 1

\* C28: a run executes its steps in the order of the list; a step that
\* raises ends the run as failed, and from then on the run executes no step
\* and the files stay as the completed steps left them.
C28_RaiseStopsRunNoRollback ==
  [][/\ C28_StepsInOrder'
     /\ (/\ automation.status = "running"
         /\ ~automation.dry_run
         /\ automation.step <= Len(Steps)
         /\ step_func(Steps[automation.step], files, automation.force).error # "none")
        => /\ automation'.status = "failed"
           /\ automation'.completed = automation.completed
           /\ files' = files
     /\ (automation.status = "failed" /\ automation'.runs = automation.runs)
        => UNCHANGED <<files, automation>>]_vars

\* A run failed in update_spec_generator: the adapter and the config entry
\* of the two steps before it are in place, the later files are not.
C28_Witness ==
  /\ automation.status = "failed"
  /\ automation.completed = <<"create_adapter", "update_config">>
  /\ files.adapter = "new"
  /\ files.config = "added"
  /\ files.mapping_script = "none"

CountOf(todo) ==
  LET counts == {i \in 1..Len(todo) : todo[i].kind = "count"}
  IN IF counts = {} THEN -1 ELSE todo[Min(counts)].n

ProgressLines(todo) == Cardinality({i \in 1..Len(todo) : todo[i].kind = "progress"})

\* C30: a call of update_todo_list that increments the count also inserts
\* the exchange's line, and no later call increments the count again.
C30_CountIncrementedOnceWithLine ==
  [][CountOf(files'.todo) > CountOf(files.todo)
     => /\ ProgressLines(files'.todo) = ProgressLines(files.todo) + 1
        /\ CountOf(todo_after_update(files'.todo)) = CountOf(files'.todo)]_vars

\* C24: every product of every adapter has status online or offline, and
\* Bitget gives online for the raw status online or gray, offline otherwise.
C24_StatusOnlineOrOffline ==
  \A i \in 1..Len(discovery.products) :
     /\ discovery.products[i].status \in {"online", "offline"}
     /\ discovery.adapter = "bitget"
        => (discovery.products[i].status = "online"
            <=> Lower(discovery.products[i].vendor_metadata.status) \in {"online", "gray"})

\* A Bitget run returned a product of a gray symbol and one of a symbol
\* with a status Bitget does not document.
C24_Witness ==
  /\ discovery.adapter = "bitget"
  /\ \E i \in 1..Len(discovery.products) :
        discovery.products[i].vendor_metadata.status = "Gray"
  /\ \E i \in 1..Len(discovery.products) :
        discovery.products[i].vendor_metadata.status = "halt"

\* C25: the Binance adapter returns a symbol that is not TRADING as a
\* product with status offline.
C25_BinanceReportsOffline ==
  (discovery.adapter = "binance" /\ discovery.error = "none")
  => \A i \in 1..Len(discovery.response.records) :
        LET r == discovery.response.records[i]
        IN (/\ discovery.response.envelope = "ok"
            /\ r.is_dict
            /\ r.status \in {"BREAK", "HALT"})
           => \E j \in 1..Len(discovery.products) :
                 /\ discovery.products[j].symbol = r.symbol
                 /\ discovery.products[j].status = "offline"

\* The run of an adapter on a response with the one record r.
Alone(adapter, r) ==
  LET response == [envelope |-> "ok", records |-> <<r>>]
  IN CASE adapter = "bitget" -> bitget_discover_products(response)
       [] adapter = "zaif"   -> zaif_discover_products(response)
       [] OTHER              -> korbit_discover_products(response)

\* C26: in the Bitget, Zaif and Korbit adapters a malformed record does not
\* abort the run: every record that gives a product on its own gives that
\* product in the run of the whole response.
C26_MalformedRecordSkipped ==
  (discovery.adapter \in {"bitget", "zaif", "korbit"} /\ discovery.response.envelope = "ok")
  => \A i \in 1..Len(discovery.response.records) :
        LET alone == Alone(discovery.adapter, discovery.response.records[i])
        IN alone.error = "none"
           => /\ discovery.error = "none"
              /\ \E j \in 1..Len(discovery.products) :
                    discovery.products[j] = alone.products[1]

\* C27: every product has a non-empty symbol, base currency and quote
\* currency.
C27_ProductFieldsNonEmpty ==
  \A i \in 1..Len(discovery.products) :
     /\ Truthy(discovery.products[i].symbol)
     /\ Truthy(discovery.products[i].base_currency)
     /\ Truthy(discovery.products[i].quote_currency)

====
